---- MODULE Spec2Model ----
(***************************************************************************)
(* A state-machine model of the head-pose tracking core of the virtual     *)
(* try-on application: TrackingQualityMonitor, ProductionStabilizer /      *)
(* PoseStabilizer, AdvancedPoseEstimator (camera intrinsics and the        *)
(* correspondence guard), CameraCalibrator and WorldClassFaceTracker.      *)
(*                                                                         *)
(* Numbers.  The JavaScript code computes in IEEE doubles.  The model uses *)
(* exact fixed-point integers:                                             *)
(*   - a metric value in [0,1] is an integer number of percent (0..100);   *)
(*   - overallQuality is in basis points (0..10000), which is exact for    *)
(*     percent metrics and percent weights;                                *)
(*   - times are milliseconds of performance.now().                        *)
(* JavaScript null/undefined in a numeric slot is the value Null.          *)
(***************************************************************************)
EXTENDS Integers, Sequences, FiniteSets, TLC

VARIABLES
  now,         \* performance.now(), in ms
  monitor,     \* the TrackingQualityMonitor instance
  assessment,  \* the QualityAssessment returned by the last update()
  fired,       \* callbacks fired by the last operation on the monitor
  obs,         \* history observer (updates done, null run, attempts seen)
  stabilizer,      \* the ProductionStabilizer instance
  result,          \* the result returned by its last update()
  poseStabilizer,  \* the PoseStabilizer instance
  stabObs,         \* history observer of the stabilizers
  tracker,         \* the WorldClassFaceTracker instance
  calls,           \* processFrame activations past the guard, innermost last
  trackerObs,      \* history observer of the tracker
  poseEstimator,   \* the AdvancedPoseEstimator instance
  poseResult,      \* its last estimate(): the input, the correspondences, the result
  focal,           \* the last estimateFocalLength(): the input and the result
  ransac,          \* the last RANSAC.findInliers(): the input and the result
  date,            \* Date.now(), in days
  storage,         \* localStorage['vto_camera_profiles'], parsed
  calibrator,      \* the ProfessionalFaceTracker's CameraCalibrator
  profileMgr,      \* its CameraProfileManager
  proTracker,      \* the ProfessionalFaceTracker's calibration fields
  calibObs         \* history observer of the three

monitorVars == <<monitor, assessment, fired, obs>>
stabVars == <<stabilizer, result, poseStabilizer, stabObs>>

trackerVars == <<tracker, calls, trackerObs>>
solverVars == <<poseEstimator, poseResult, focal, ransac>>
calibVars == <<date, storage, calibrator, profileMgr, proTracker, calibObs>>

\* what an operation on one object leaves alone
notMonitor == <<stabVars, trackerVars, solverVars, calibVars>>
notStabilizer == <<monitorVars, trackerVars, solverVars, calibVars>>

vars == <<now, monitor, assessment, fired, obs,
         stabilizer, result, poseStabilizer, stabObs,
         tracker, calls, trackerObs,
         poseEstimator, poseResult, focal, ransac,
         date, storage, calibrator, profileMgr, proTracker, calibObs>>

Null == 0 - 1

\* NaN: the result of 0 / 0 and of arithmetic on a non-numeric operand.  Every
\* comparison with it is false, every sum and product with it is NaN.
NaN == 0 - 999999

Max(a, b) == IF a >= b THEN a ELSE b
Min(a, b) == IF a <= b THEN a ELSE b

\* The element of a one-element set.
Only(S) == CHOOSE x \in S : TRUE

RECURSIVE SumSeq(_)
SumSeq(s) == IF s = <<>> THEN 0 ELSE Head(s) + SumSeq(Tail(s))

(***************************************************************************)
(* TrackingQualityMonitor.js: constants                                    *)
(***************************************************************************)
excellentThreshold == 9000
goodThreshold == 7500
acceptableThreshold == 5000
poorThreshold == 3000
criticalThreshold == 1500

recoveryDelay == 500
maxRecoveryAttempts == 3
recoveryCooldown == 2000

historySize == 30
qualityHistoryMax == 100

\* Object.values(this.metrics) iterates in insertion order.
MetricNames == <<"landmarkConfidence", "poseStability", "reprojectionError",
                 "faceVisibility", "motionConsistency", "occlusionLevel">>

MetricSet == {MetricNames[i] : i \in 1..Len(MetricNames)}

\* weight and threshold of each QualityMetric, in percent
MetricWeight ==
  [landmarkConfidence |-> 25, poseStability |-> 20, reprojectionError |-> 15,
   faceVisibility |-> 20, motionConsistency |-> 10, occlusionLevel |-> 10]

MetricThreshold ==
  [landmarkConfidence |-> 60, poseStability |-> 50, reprojectionError |-> 70,
   faceVisibility |-> 70, motionConsistency |-> 50, occlusionLevel |-> 60]

TRACKING_STATES ==
  {"initializing", "tracking_excellent", "tracking_good", "tracking_acceptable",
   "tracking_poor", "recovering", "lost", "error"}

RECOVERY_STRATEGIES ==
  {"none", "reinitialize", "reset_filters", "adjust_thresholds",
   "reduce_quality", "full_reset"}

(***************************************************************************)
(* QualityMetric                                                           *)
(***************************************************************************)
\* A fresh (or reset) metric.  average and trend are kept as fractions.
NewMetric ==
  [current |-> 0, history |-> <<>>,
   average |-> [num |-> 0, den |-> 1],
   trend |-> [num |-> 0, den |-> 1]]

\* Linear-regression slope of the history: (n*sumXY - sumX*sumY) /
\* (n*sumX2 - sumX*sumX), x = 0..n-1, as a fraction of percent per sample.
TrendOf(h) ==
  LET n == Len(h)
      sumX == (n * (n - 1)) \div 2
      sumY == SumSeq(h)
      sumXY == SumSeq([i \in 1..n |-> (i - 1) * h[i]])
      sumX2 == (n * (n - 1) * (2 * n - 1)) \div 6
  IN [num |-> n * sumXY - sumX * sumY, den |-> n * sumX2 - sumX * sumX]

MetricUpdate_DropsNewest(m, value) ==
  LET pushed == Append(m.history, value)
      h == IF Len(pushed) > historySize THEN m.history ELSE pushed
      notANumber == [num |-> NaN, den |-> 1]
      hasNaN == \E i \in 1..Len(h) : h[i] = NaN
  IN [current |-> value,
      history |-> h,
      average |-> IF hasNaN THEN notANumber
                  ELSE [num |-> SumSeq(h), den |-> Len(h)],
      trend |-> IF Len(h) >= 5
                THEN (IF hasNaN THEN notANumber ELSE TrendOf(h))
                ELSE m.trend]

\* QualityMetric.update(value)
MetricUpdate(m, value) ==
  LET pushed == Append(m.history, value)
      h == IF Len(pushed) > historySize THEN Tail(pushed) ELSE pushed
      notANumber == [num |-> NaN, den |-> 1]
      hasNaN == \E i \in 1..Len(h) : h[i] = NaN
  IN [current |-> value,
      history |-> h,
      average |-> IF hasNaN THEN notANumber
                  ELSE [num |-> SumSeq(h), den |-> Len(h)],
      trend |-> IF Len(h) >= 5
                THEN (IF hasNaN THEN notANumber ELSE TrendOf(h))
                ELSE m.trend]

\* QualityMetric.isBelowThreshold()
isBelowThreshold(ms, name) ==
  ms[name].current # NaN /\ ms[name].current < MetricThreshold[name]

\* metric.trend < -0.01.  The stored fraction is in percent per sample, so the
\* test is num/den < -1, and den > 0 whenever the history has 2 or more samples.
TrendDeclining(m) == m.trend.num # NaN /\ m.trend.num < 0 - m.trend.den

(***************************************************************************)
(* Tracking data handed to update().  A field the caller leaves undefined  *)
(* is Null.  velocityMag is Math.hypot of trackingData.velocity (Null: no  *)
(* velocity), reprojectionError is in pixels, a landmark is                *)
(* [x, y, presence] in percent of the image (presence may be Null).        *)
(***************************************************************************)
NoData ==
  [isNull |-> TRUE, confidence |-> Null, poseStability |-> Null,
   velocityMag |-> Null, reprojectionError |-> Null, faceVisibility |-> Null,
   hasLandmarks |-> FALSE, landmarks |-> <<>>, occlusionLevel |-> Null]

TD(c, ps, vel, re, fv, hasLm, lms, occ) ==
  [isNull |-> FALSE, confidence |-> c, poseStability |-> ps,
   velocityMag |-> vel, reprojectionError |-> re, faceVisibility |-> fv,
   hasLandmarks |-> hasLm, landmarks |-> lms, occlusionLevel |-> occ]

\* _estimatePoseStability
estimatePoseStability(td) ==
  IF td.velocityMag # Null THEN Max(0, 100 - td.velocityMag) ELSE 70

\* _estimateFaceVisibility: visibleCount / landmarks.length, 0 / 0 on an empty
\* landmark array
estimateFaceVisibility(td) ==
  IF ~td.hasLandmarks THEN 0
  ELSE IF Len(td.landmarks) = 0 THEN NaN
  ELSE LET visibleCount ==
             Cardinality({i \in 1..Len(td.landmarks) :
                /\ td.landmarks[i].x >= 0 /\ td.landmarks[i].x <= 100
                /\ td.landmarks[i].y >= 0 /\ td.landmarks[i].y <= 100})
       IN (visibleCount * 100) \div Len(td.landmarks)

\* _estimateOcclusion
estimateOcclusion(td) ==
  IF ~td.hasLandmarks THEN 100
  ELSE IF Len(td.landmarks) = 0 THEN NaN
  ELSE LET occludedCount ==
             Cardinality({i \in 1..Len(td.landmarks) :
                /\ td.landmarks[i].presence # Null
                /\ td.landmarks[i].presence < 50})
       IN (occludedCount * 100) \div Len(td.landmarks)

\* qualityHistory.slice(-5)
LastN(s, k) == IF Len(s) <= k THEN s ELSE SubSeq(s, Len(s) - k + 1, Len(s))

\* _calculateVariance(arr) = sum((b - mean)^2) / n, returned as the fraction
\* num / den in basis points squared.  n * sum(b^2) - (sum b)^2 is computed as
\* the sum of the squared pairwise differences, which is the same number and
\* stays inside 32 bits.
calculateVariance(arr) ==
  LET n == Len(arr)
      Sq(i, j) == IF i < j THEN (arr[i] - arr[j]) * (arr[i] - arr[j]) ELSE 0
  IN IF n = 0 THEN [num |-> 0, den |-> 1]
     ELSE [num |-> SumSeq([i \in 1..n |-> SumSeq([j \in 1..n |-> Sq(i, j)])]),
           den |-> n * n]

\* _estimateMotionConsistency: max(0, 1 - variance * 5), in percent, rounded
\* down.  variance is in basis points squared (1e-8), so 1 - 5*variance in
\* percent is 100 - num / (den * 200000).
estimateMotionConsistency(qualityHistory) ==
  IF Len(qualityHistory) < 3 THEN 100
  ELSE IF \E i \in 1..Len(LastN(qualityHistory, 5)) :
            LastN(qualityHistory, 5)[i] = NaN
  THEN NaN
  ELSE Only({Max(0, (100 * (v.den * 200000) - v.num) \div (v.den * 200000)) :
               v \in {calculateVariance(LastN(qualityHistory, 5))}})

\* _updateMetrics without its no-data branch: a null frame leaves the metrics
updateMetrics_NullIgnored(ms, qualityHistory, td) ==
  IF td.isNull THEN ms
  ELSE [name \in MetricSet |->
         CASE name = "landmarkConfidence" ->
                IF td.confidence # Null
                THEN MetricUpdate(ms[name], td.confidence) ELSE ms[name]
           [] name = "poseStability" ->
                IF td.poseStability # Null
                THEN MetricUpdate(ms[name], td.poseStability)
                ELSE MetricUpdate(ms[name], estimatePoseStability(td))
           [] name = "reprojectionError" ->
                IF td.reprojectionError # Null
                THEN MetricUpdate(ms[name], Max(0, 100 - 2 * td.reprojectionError))
                ELSE ms[name]
           [] name = "faceVisibility" ->
                IF td.faceVisibility # Null
                THEN MetricUpdate(ms[name], td.faceVisibility)
                ELSE MetricUpdate(ms[name], estimateFaceVisibility(td))
           [] name = "motionConsistency" ->
                MetricUpdate(ms[name], estimateMotionConsistency(qualityHistory))
           [] name = "occlusionLevel" ->
                IF td.occlusionLevel # Null
                THEN MetricUpdate(ms[name], 100 - td.occlusionLevel)
                ELSE MetricUpdate(ms[name],
                       Only({IF occlusion = NaN THEN NaN ELSE 100 - occlusion :
                               occlusion \in {estimateOcclusion(td)}}))]

\* _updateMetrics: the new metrics object
updateMetrics(ms, qualityHistory, td) ==
  IF td.isNull
  THEN [name \in MetricSet |-> MetricUpdate(ms[name], 0)]
  ELSE [name \in MetricSet |->
         CASE name = "landmarkConfidence" ->
                IF td.confidence # Null
                THEN MetricUpdate(ms[name], td.confidence) ELSE ms[name]
           [] name = "poseStability" ->
                IF td.poseStability # Null
                THEN MetricUpdate(ms[name], td.poseStability)
                ELSE MetricUpdate(ms[name], estimatePoseStability(td))
           [] name = "reprojectionError" ->
                IF td.reprojectionError # Null
                THEN MetricUpdate(ms[name], Max(0, 100 - 2 * td.reprojectionError))
                ELSE ms[name]
           [] name = "faceVisibility" ->
                IF td.faceVisibility # Null
                THEN MetricUpdate(ms[name], td.faceVisibility)
                ELSE MetricUpdate(ms[name], estimateFaceVisibility(td))
           [] name = "motionConsistency" ->
                MetricUpdate(ms[name], estimateMotionConsistency(qualityHistory))
           [] name = "occlusionLevel" ->
                IF td.occlusionLevel # Null
                THEN MetricUpdate(ms[name], 100 - td.occlusionLevel)
                ELSE MetricUpdate(ms[name],
                       Only({IF occlusion = NaN THEN NaN ELSE 100 - occlusion :
                               occlusion \in {estimateOcclusion(td)}}))]

\* _calculateOverallQuality: weightedSum / totalWeight, in basis points
calculateOverallQuality(ms) ==
  LET weightedSum == SumSeq([i \in 1..Len(MetricNames) |->
                       ms[MetricNames[i]].current * MetricWeight[MetricNames[i]]])
      totalWeight == SumSeq([i \in 1..Len(MetricNames) |->
                       MetricWeight[MetricNames[i]]])
  IN IF \E name \in MetricSet : ms[name].current = NaN THEN NaN
     ELSE IF totalWeight > 0 THEN (weightedSum * 100) \div totalWeight ELSE 0

(***************************************************************************)
(* TrackingQualityMonitor: state, update(), recoveryComplete(), reset()    *)
(***************************************************************************)
\* The monitor after construction (default options).
NewMonitor ==
  [metrics |-> [name \in MetricSet |-> NewMetric],
   state |-> "initializing",
   previousState |-> "null",
   overallQuality |-> 0,
   qualityHistory |-> <<>>,
   recoveryAttempts |-> 0,
   lastRecoveryTime |-> 0,
   recoveryInProgress |-> FALSE,
   lossStartTime |-> Null,
   lossDuration |-> 0,
   predictedLoss |-> FALSE,
   frameCount |-> 0,
   lastFrameTime |-> 0,
   fps |-> 0]

NoCallbacks ==
  [onTrackingLost |-> FALSE, onTrackingRecovered |-> FALSE,
   onStateChange |-> FALSE, onRecoveryAttempt |-> FALSE,
   attempt |-> 0, strategy |-> "none"]

NoAssessment ==
  [quality |-> 0, state |-> "initializing", isTracking |-> TRUE,
   isRecovering |-> FALSE, isLost |-> FALSE, predictedLoss |-> FALSE,
   lossDuration |-> 0, recoveryAttempts |-> 0, recommendedStrategy |-> "none"]

\* JavaScript truthiness of a number-or-null slot: null and 0 are falsy.
Truthy(x) == x # Null /\ x # 0

\* _updateState comparing with > where the code has >=
StateForQuality_Exclusive(q) ==
  IF q > excellentThreshold THEN "tracking_excellent"
  ELSE IF q > goodThreshold THEN "tracking_good"
  ELSE IF q > acceptableThreshold THEN "tracking_acceptable"
  ELSE IF q > poorThreshold THEN "tracking_poor"
  ELSE IF q > criticalThreshold THEN "recovering"
  ELSE "lost"

\* The if / else-if chain of _updateState: the state for a quality q.
StateForQuality(q) ==
  IF q >= excellentThreshold THEN "tracking_excellent"
  ELSE IF q >= goodThreshold THEN "tracking_good"
  ELSE IF q >= acceptableThreshold THEN "tracking_acceptable"
  ELSE IF q >= poorThreshold THEN "tracking_poor"
  ELSE IF q >= criticalThreshold THEN "recovering"
  ELSE "lost"

\* _handleStateChange taking the return from lost as the attempt's outcome
handleStateChange_InfersRecovery(mon, from, to, t) ==
  LET entered == to = "lost" /\ from # "lost"
      left == from = "lost" /\ to # "lost"
      m1 == [mon EXCEPT !.previousState = from]
      m2 == IF entered THEN [m1 EXCEPT !.lossStartTime = t] ELSE m1
  IN IF left
     THEN [m2 EXCEPT !.lossStartTime = Null, !.lossDuration = 0,
                     !.recoveryAttempts = 0, !.recoveryInProgress = FALSE]
     ELSE m2

\* _handleStateChange(from, to): the fields it assigns
handleStateChange(mon, from, to, t) ==
  LET entered == to = "lost" /\ from # "lost"
      left == from = "lost" /\ to # "lost"
      m1 == [mon EXCEPT !.previousState = from]
      m2 == IF entered THEN [m1 EXCEPT !.lossStartTime = t] ELSE m1
  IN IF left
     THEN [m2 EXCEPT !.lossStartTime = Null, !.lossDuration = 0,
                     !.recoveryAttempts = 0]
     ELSE m2

predictLoss_TwoDeclining(ms, q) ==
  LET decliningCount == Cardinality({name \in MetricSet : TrendDeclining(ms[name])})
  IN decliningCount >= 2 /\ q # NaN /\ q < goodThreshold

\* _predictLoss
predictLoss(ms, q) ==
  LET decliningCount == Cardinality({name \in MetricSet : TrendDeclining(ms[name])})
  IN decliningCount >= 3 /\ q # NaN /\ q < goodThreshold

\* _determineRecoveryStrategy
determineRecoveryStrategy_StabilityFirst(mon) ==
  LET failing(name) == isBelowThreshold(mon.metrics, name)
  IN IF failing("poseStability") THEN "reset_filters"
     ELSE IF failing("landmarkConfidence") /\ failing("faceVisibility")
       THEN "reduce_quality"
     ELSE IF failing("reprojectionError") THEN "adjust_thresholds"
     ELSE IF mon.recoveryAttempts >= 2 THEN "full_reset"
     ELSE "reinitialize"

determineRecoveryStrategy(mon) ==
  LET failing(name) == isBelowThreshold(mon.metrics, name)
  IN IF failing("landmarkConfidence") /\ failing("faceVisibility")
       THEN "reduce_quality"
     ELSE IF failing("poseStability") THEN "reset_filters"
     ELSE IF failing("reprojectionError") THEN "adjust_thresholds"
     ELSE IF mon.recoveryAttempts >= 2 THEN "full_reset"
     ELSE "reinitialize"

\* The four early returns of _attemptRecovery, as the conditions to go on.
DelayElapsed(lossDuration) == ~(lossDuration < recoveryDelay)
NoRecoveryInProgress(mon) == ~mon.recoveryInProgress
AttemptsLeft(mon) == ~(mon.recoveryAttempts >= maxRecoveryAttempts)
CooldownElapsed_Skipped(mon, t) == TRUE
CooldownElapsed(mon, t) == ~(t - mon.lastRecoveryTime < recoveryCooldown)

\* _attemptRecovery: [mon |-> the monitor after it, attempt |-> whether
\* onRecoveryAttempt fired, strategy |-> the strategy passed to it]
attemptRecovery(mon, t) ==
  LET m1 == IF Truthy(mon.lossStartTime)
            THEN [mon EXCEPT !.lossDuration = t - mon.lossStartTime] ELSE mon
      go == /\ DelayElapsed(m1.lossDuration)
            /\ NoRecoveryInProgress(m1)
            /\ AttemptsLeft(m1)
            /\ CooldownElapsed(m1, t)
      strategy == determineRecoveryStrategy(m1)
  IN IF go /\ strategy # "none"
     THEN [mon |-> [m1 EXCEPT !.recoveryInProgress = TRUE,
                              !.recoveryAttempts = m1.recoveryAttempts + 1,
                              !.lastRecoveryTime = t],
           attempt |-> TRUE, strategy |-> strategy]
     ELSE [mon |-> m1, attempt |-> FALSE, strategy |-> "none"]

\* _getAssessment
getAssessment(mon) ==
  [quality |-> mon.overallQuality,
   state |-> mon.state,
   isTracking |-> mon.state # "lost" /\ mon.state # "error",
   isRecovering |-> mon.state = "recovering",
   isLost |-> mon.state = "lost",
   predictedLoss |-> mon.predictedLoss,
   lossDuration |-> mon.lossDuration,
   recoveryAttempts |-> mon.recoveryAttempts,
   recommendedStrategy |-> IF mon.state = "lost"
                           THEN determineRecoveryStrategy(mon) ELSE "none"]

\* update(trackingData) at time t: [mon, fired, assessment].  The steps are
\* the statements of update() in order; each value a later statement reads is
\* bound once (Only), as the fields the code has assigned by then.
update(mon, td, t) ==
  LET fps == IF mon.lastFrameTime > 0
             THEN (IF t > mon.lastFrameTime
                   THEN 1000 \div (t - mon.lastFrameTime) ELSE Null)
             ELSE mon.fps
      \* qualityHistory.push, then return this._getAssessment()
      Finish(rec, q, to) ==
        LET changed == mon.state # to
            pushed == Append(rec.mon.qualityHistory, q)
            m4 == [rec.mon EXCEPT !.qualityHistory =
                     IF Len(pushed) > qualityHistoryMax THEN Tail(pushed)
                     ELSE pushed]
        IN [mon |-> m4,
            fired |-> [onTrackingLost |-> changed /\ to = "lost",
                       onTrackingRecovered |-> changed /\ mon.state = "lost",
                       onStateChange |-> changed,
                       onRecoveryAttempt |-> rec.attempt,
                       attempt |-> IF rec.attempt THEN rec.mon.recoveryAttempts
                                   ELSE 0,
                       strategy |-> rec.strategy],
            assessment |-> getAssessment(m4)]
      \* if (recoveryEnabled && state === LOST) this._attemptRecovery()
      Recover(m3, q, to) ==
        Only({Finish(rec, q, to) :
                rec \in {IF m3.state = "lost" THEN attemptRecovery(m3, t)
                         ELSE [mon |-> m3, attempt |-> FALSE,
                               strategy |-> "none"]}})
      \* this._updateState(); if (enablePrediction) this._predictLoss()
      Classify(ms, q, to) ==
        LET m1 == [mon EXCEPT !.frameCount = mon.frameCount + 1,
                              !.fps = fps, !.lastFrameTime = t,
                              !.metrics = ms, !.overallQuality = q,
                              !.state = to]
            m2 == IF mon.state # to
                  THEN handleStateChange(m1, mon.state, to, t) ELSE m1
        IN Only({Recover(m3, q, to) :
                   m3 \in {[m2 EXCEPT !.predictedLoss = predictLoss(ms, q)]}})
      \* this._calculateOverallQuality()
      Measure(ms) ==
        Only({Classify(ms, q, StateForQuality(q)) :
                q \in {calculateOverallQuality(ms)}})
  \* this._updateMetrics(trackingData)
  IN Only({Measure(ms) :
             ms \in {updateMetrics(mon.metrics, mon.qualityHistory, td)}})

\* recoveryComplete(success)
recoveryComplete(mon, success) ==
  LET m1 == [mon EXCEPT !.recoveryInProgress = FALSE]
  IN IF success
     THEN [m1 EXCEPT !.recoveryAttempts = 0, !.lossStartTime = Null,
                     !.lossDuration = 0]
     ELSE m1

\* reset() leaving the state as it is
reset_KeepsState(mon) ==
  [NewMonitor EXCEPT !.lastFrameTime = mon.lastFrameTime, !.fps = mon.fps,
                     !.state = mon.state]

\* reset(): lastFrameTime and fps are the two fields it leaves alone
reset(mon) ==
  [NewMonitor EXCEPT !.lastFrameTime = mon.lastFrameTime, !.fps = mon.fps]

(***************************************************************************)
(* Bounds of the monitor's specifications                                  *)
(***************************************************************************)
MaxUpdates == 4          \* update() calls in SpecMonitor
MaxLossUpdates == 12     \* update() calls in SpecLoss
MaxRecoveryUpdates == 6  \* update() calls in SpecRecovery
MaxResets == 1           \* reset() calls
MaxQualityUpdates == 6   \* update() calls in SpecQuality
MaxHistoryUpdates == 102 \* update() calls in SpecHistory

\* The scenario length of the loss scenario: 10 frames without landmarks.
NullFrames == 10

(***************************************************************************)
(* The history observer.  It records what the callbacks and the clock      *)
(* showed; the monitor never reads it.                                     *)
(***************************************************************************)
NewObs ==
  [updates |-> 0, resets |-> 0, lastOp |-> "new",
   \* the run of null frames that follows a frame ending in tracking_good
   runActive |-> FALSE, runNulls |-> 0, runLost |-> 0, runReachedLost |-> FALSE,
   \* the loss episode: when the state became lost, attempts fired in it
   lostSince |-> Null, episodeAttempts |-> 0,
   \* recovery attempts: the time of the latest, the gap between the latest two
   prevAttempt |-> Null, gap |-> Null,
   \* the same, counting only the attempts made since the last reset()
   prevAttemptSinceReset |-> Null, gapSinceReset |-> Null,
   \* the clock and gates as the attempt-deciding update saw them
   attemptsBefore |-> 0,
   \* since construction or reset(): every value given to the
   \* landmarkConfidence metric, every quality update() returned
   pushedConfidence |-> <<>>, pushedQuality |-> <<>>]

ObserveUpdate(o, mon, td, res, t) ==
  LET to == res.mon.state
      entered == to = "lost" /\ mon.state # "lost"
      inRun == o.runActive /\ td.isNull
      att == res.fired.onRecoveryAttempt
  IN [o EXCEPT
       !.updates = o.updates + 1,
       !.lastOp = "update",
       !.runActive = inRun \/ (~td.isNull /\ to = "tracking_good"),
       !.runNulls = IF inRun THEN o.runNulls + 1 ELSE 0,
       !.runLost = IF inRun
                   THEN o.runLost + (IF res.fired.onTrackingLost THEN 1 ELSE 0)
                   ELSE 0,
       !.runReachedLost = inRun /\ (o.runReachedLost \/ to = "lost"),
       !.lostSince = IF entered THEN t ELSE IF to = "lost" THEN o.lostSince ELSE Null,
       !.attemptsBefore = IF entered \/ to # "lost" THEN 0 ELSE o.episodeAttempts,
       !.episodeAttempts = (IF entered \/ to # "lost" THEN 0 ELSE o.episodeAttempts)
                           + (IF att THEN 1 ELSE 0),
       !.prevAttempt = IF att THEN t ELSE o.prevAttempt,
       !.gap = IF att /\ o.prevAttempt # Null THEN t - o.prevAttempt
               ELSE IF att THEN Null ELSE o.gap,
       !.prevAttemptSinceReset = IF att THEN t ELSE o.prevAttemptSinceReset,
       !.gapSinceReset = IF att /\ o.prevAttemptSinceReset # Null
                         THEN t - o.prevAttemptSinceReset
                         ELSE IF att THEN Null ELSE o.gapSinceReset,
       !.pushedConfidence = IF td.isNull THEN Append(@, 0)
                            ELSE IF td.confidence # Null
                            THEN Append(@, td.confidence) ELSE @,
       !.pushedQuality = Append(@, res.assessment.quality)]

(***************************************************************************)
(* Frames                                                                  *)
(***************************************************************************)
Inside == [x |-> 50, y |-> 50, presence |-> Null]
OffScreen == [x |-> 120, y |-> 50, presence |-> 90]
Occluded == [x |-> 50, y |-> 50, presence |-> 20]

\* What WorldClassFaceTracker passes: confidence, reprojectionError and
\* landmarks; no poseStability, velocity, faceVisibility or occlusionLevel.
GoodFrame == TD(50, Null, Null, 10, Null, TRUE, <<Inside, Inside>>, Null)

MonitorFrames ==
  { NoData,
    GoodFrame,
    TD(100, 100, Null, 0, 100, FALSE, <<>>, 0),
    TD(0, 100, Null, 0, 100, FALSE, <<>>, 0),
    TD(100, 100, Null, 0, 100, FALSE, <<>>, 100),
    TD(0, 100, Null, 50, 100, FALSE, <<>>, 100),
    TD(0, 0, Null, 50, 100, FALSE, <<>>, 100),
    TD(0, 0, Null, 50, 25, FALSE, <<>>, 100),
    TD(0, 0, Null, 50, 70, FALSE, <<>>, 100),
    TD(Null, Null, 30, Null, Null, TRUE, <<Inside, OffScreen, Occluded, Occluded>>, Null) }

\* Frames whose supplied fields are in range: every field given, at three
\* levels; no frame; a confidence and an empty landmark array.
QualityFrames ==
  { NoData,
    TD(100, 100, Null, 0, 100, FALSE, <<>>, 0),
    TD(90, 90, Null, 5, 90, FALSE, <<>>, 10),
    TD(20, 30, Null, 40, 20, FALSE, <<>>, 80),
    TD(90, Null, Null, Null, Null, TRUE, <<>>, Null) }

\* The k-th frame of a long run: the confidence changes with every frame.
HistoryFrame(k) == TD((7 * k) % 101, 100, Null, 0, 100, FALSE, <<>>, 0)

(***************************************************************************)
(* Actions on the monitor                                                  *)
(***************************************************************************)
MonitorInit ==
  /\ now = recoveryDelay
  /\ monitor = NewMonitor
  /\ assessment = NoAssessment
  /\ fired = NoCallbacks
  /\ obs = NewObs

\* qualityMonitor.update(td), dt ms after the previous operation
Update(td, dt) ==
  \E res \in {update(monitor, td, now + dt)} :
     /\ now' = now + dt
     /\ monitor' = res.mon
     /\ assessment' = res.assessment
     /\ fired' = res.fired
     /\ obs' = ObserveUpdate(obs, monitor, td, res, now + dt)
     /\ UNCHANGED notMonitor

\* qualityMonitor.recoveryComplete(success): the caller reports the outcome
\* of the attempt it was notified of
RecoveryComplete(success) ==
  /\ monitor.recoveryInProgress
  /\ monitor' = recoveryComplete(monitor, success)
  /\ fired' = NoCallbacks
  /\ obs' = [obs EXCEPT !.lastOp = "recoveryComplete",
                        !.runActive = FALSE, !.runNulls = 0, !.runLost = 0,
                        !.runReachedLost = FALSE]
  /\ UNCHANGED <<now, assessment, notMonitor>>

\* qualityMonitor.reset()
Reset ==
  /\ obs.resets < MaxResets
  /\ monitor' = reset(monitor)
  /\ fired' = NoCallbacks
  /\ obs' = [obs EXCEPT !.lastOp = "reset", !.resets = obs.resets + 1,
                        !.runActive = FALSE, !.runNulls = 0, !.runLost = 0,
                        !.runReachedLost = FALSE,
                        !.lostSince = Null, !.episodeAttempts = 0,
                        !.attemptsBefore = 0,
                        !.prevAttemptSinceReset = Null, !.gapSinceReset = Null,
                        !.pushedConfidence = <<>>, !.pushedQuality = <<>>]
  /\ UNCHANGED <<now, assessment, notMonitor>>


\* update() with any of the frames
MonitorUpdate ==
  /\ obs.updates < MaxUpdates
  /\ \E td \in MonitorFrames : Update(td, recoveryDelay)

\* update() at the frame rate, with and without landmarks
LossUpdate ==
  /\ obs.updates < MaxLossUpdates
  /\ \E td \in {NoData, GoodFrame} : Update(td, 33)

\* update() after a recoveryDelay or a recoveryCooldown
RecoveryUpdate ==
  /\ obs.updates < MaxRecoveryUpdates
  /\ \E td \in {NoData, GoodFrame}, dt \in {recoveryDelay, recoveryCooldown} :
        Update(td, dt)

ReportRecovery == \E success \in BOOLEAN : RecoveryComplete(success)

\* update() over a long run: stretches of 25 frames with a face or without
HistoryUpdate ==
  /\ obs.updates < MaxHistoryUpdates
  /\ \E td \in {NoData, HistoryFrame(obs.updates)} :
       /\ obs.updates % 25 # 0 => td.isNull = (monitor.metrics["faceVisibility"].current = 0)
       /\ Update(td, 33)

\* update() at the frame rate, with frames whose supplied fields are in range
QualityUpdate ==
  /\ obs.updates < MaxQualityUpdates
  /\ \E td \in QualityFrames : Update(td, 33)

(***************************************************************************)
(* ProductionStabilizer.js.  Positions and scales are in thousandths of a  *)
(* unit, angles in thousandths of a radian, times in ms, confidences in    *)
(* percent, cutoff frequencies in thousandths of a Hz, smoothing factors   *)
(* (alpha, gains, blends) in thousandths.  Rotations are rotations about   *)
(* the z axis (the roll WorldClassFaceTracker._buildTrackingData builds    *)
(* from the eye line), held as their angle: for these setFromQuaternion,   *)
(* setFromEuler and slerp act on the angle alone, as long as angles stay   *)
(* inside (-pi, pi).                                                       *)
(***************************************************************************)
Axes == {"x", "y", "z"}
Vec(a, b, c) == [x |-> a, y |-> b, z |-> c]
Abs(a) == IF a < 0 THEN 0 - a ELSE a

\* Math.sqrt, rounded down
RECURSIVE SqrtBetween(_, _, _)
SqrtBetween(v, lo, hi) ==
  IF lo >= hi THEN lo
  ELSE IF ((lo + hi + 1) \div 2) * ((lo + hi + 1) \div 2) <= v
       THEN SqrtBetween(v, (lo + hi + 1) \div 2, hi)
       ELSE SqrtBetween(v, lo, ((lo + hi + 1) \div 2) - 1)
Sqrt(v) == SqrtBetween(v, 0, 46340)

\* a + (b - a) * t, t in thousandths: Vector3.lerp per component, and
\* Quaternion.slerp on the angle of a rotation about z
Lerp(a, b, t) == a + ((b - a) * t) \div 1000

\* class LowPassFilter: x is null until the first filter()
NewLowPass == [set |-> FALSE, x |-> 0]
LowPassFilter(f, x, alpha) ==
  IF ~f.set THEN [set |-> TRUE, x |-> x]
  ELSE [set |-> TRUE, x |-> (alpha * x + (1000 - alpha) * f.x) \div 1000]

\* class OneEuroFilter
NewOneEuro(minCutoff, beta) ==
  [minCutoff |-> minCutoff, beta |-> beta, dCutoff |-> 1000,
   started |-> FALSE, x |-> 0, dx |-> 0, lastX |-> 0, lastTime |-> 0,
   xFilter |-> NewLowPass, dxFilter |-> NewLowPass]

\* _alpha(dt, cutoff) = 1 / (1 + te / dt), te = 1 / (2 pi cutoff): with
\* a = 2 pi cutoff dt it is a / (a + 1); 2 pi is taken as 6.28
OneEuroAlpha(dt, cutoff) ==
  (628 * ((cutoff * dt) \div 1000)) \div ((628 * ((cutoff * dt) \div 1000)) \div 1000 + 100)

\* filter(x, timestamp): the filter after the call; its field x is the value
\* returned.  The derivative is kept in whole units per second.
OneEuroFilter(f, x, timestamp) ==
  IF ~f.started
  THEN [f EXCEPT !.started = TRUE, !.x = x, !.lastX = x, !.lastTime = timestamp]
  ELSE LET dt == Max(timestamp - f.lastTime, 1)
           WithDerivative(dxf) ==
             LET cutoff == f.minCutoff + f.beta * Abs(dxf.x)
             IN Only({[f EXCEPT !.lastTime = timestamp, !.lastX = x,
                                !.dxFilter = dxf, !.dx = dxf.x,
                                !.xFilter = xf, !.x = xf.x] :
                        xf \in {LowPassFilter(f.xFilter, x,
                                              OneEuroAlpha(dt, cutoff))}})
       IN Only({WithDerivative(dxf) :
                  dxf \in {LowPassFilter(f.dxFilter, (x - f.lastX) \div dt,
                                         OneEuroAlpha(dt, f.dCutoff))}})

\* OneEuroFilter.reset(): the parameters stay as setParams left them
OneEuroReset(f) ==
  [NewOneEuro(f.minCutoff, f.beta) EXCEPT !.dCutoff = f.dCutoff]

\* class DoubleExponentialSmoother (alpha 0.3, gamma 0.1)
NewDoubleExp == [initialized |-> FALSE, level |-> 0, trend |-> 0]
DoubleExpSmooth(s, value) ==
  IF ~s.initialized THEN [initialized |-> TRUE, level |-> value, trend |-> 0]
  ELSE Only({[initialized |-> TRUE, level |-> level,
              trend |-> (100 * (level - s.level) + 900 * s.trend) \div 1000] :
               level \in {(300 * value + 700 * (s.level + s.trend)) \div 1000}})

\* class JitterSuppressor (windowSize 5, threshold 0.005 from the
\* stabilizer's jitterThreshold): process(value) gives the suppressor after
\* the call and the value returned
NewJitter == [history |-> <<>>, variance |-> 0]
JitterProcess(j, value) ==
  LET pushed == Append(j.history, value)
      h == IF Len(pushed) > 5 THEN Tail(pushed) ELSE pushed
      mean == SumSeq(h) \div Len(h)
      variance == SumSeq([i \in 1..Len(h) |-> (h[i] - mean) * (h[i] - mean)])
                    \div Len(h)
  IN IF Len(h) < 3 THEN [j |-> [j EXCEPT !.history = h], out |-> value]
     ELSE [j |-> [history |-> h, variance |-> variance],
           out |-> IF variance > 5000 THEN mean ELSE value]

\* class PoseKalmanFilter.  Its velocity entries never leave 0 (the gain has
\* no entries for them), so predict() moves neither position nor quaternion
\* and the state kept is position, angle and the covariance entries the
\* code reads back: per position axis P[p][p], P[p][v], P[v][v], and the
\* common diagonal entry of the quaternion components.  R is read at
\* R[i * 7 + i] of a 13 x 13 matrix: 1.0 for x and 0 for every other
\* component.
NewKalman ==
  [initialized |-> FALSE, position |-> Vec(0, 0, 0), angle |-> 0,
   Ppp |-> Vec(100000, 100000, 100000), Ppv |-> Vec(0, 0, 0),
   Pvv |-> Vec(100000, 100000, 100000), Pqq |-> 100000]

KalmanR(axis) == IF axis = "x" THEN 1000 ELSE 0

\* predict(dt): P = F P F^T + Q with F = I + dt on the position-velocity
\* entries and Q = 0.1 I
KalmanPredict(k, dt) ==
  [k EXCEPT
     !.Ppp = [a \in Axes |->
                k.Ppp[a] + (2 * dt * k.Ppv[a]) \div 1000
                  + (((dt * dt) \div 1000) * k.Pvv[a]) \div 1000 + 100],
     !.Ppv = [a \in Axes |-> k.Ppv[a] + (dt * k.Pvv[a]) \div 1000],
     !.Pvv = [a \in Axes |-> k.Pvv[a] + 100],
     !.Pqq = k.Pqq + 100]

\* the gain of one component, in thousandths: P / (P + R) if P + R > 1e-10
KalmanGain(P, R) == IF P + R > 0 THEN (P * 1000) \div (P + R) ELSE 0

\* update(measurement).  The quaternion step adds gain * (conj(qMeas) * qPred)
\* to the state and normalizes: for rotations about z with gain 1 the sum of
\* the two unit quaternions has the mean of their half angles, so the angle
\* becomes angle - measured / 2; with gain 0 it stays.
KalmanUpdate(k, position, angle) ==
  IF ~k.initialized
  THEN [k EXCEPT !.initialized = TRUE, !.position = position, !.angle = angle]
  ELSE [k EXCEPT
          !.position = [a \in Axes |->
             k.position[a] +
               (KalmanGain(k.Ppp[a], KalmanR(a)) * (position[a] - k.position[a]))
                 \div 1000],
          !.angle = IF KalmanGain(k.Pqq, 0) = 1000
                    THEN (2 * k.angle - angle) \div 2 ELSE k.angle,
          !.Ppp = [a \in Axes |->
             (k.Ppp[a] * (1000 - KalmanGain(k.Ppp[a], KalmanR(a)))) \div 1000],
          !.Pqq = (k.Pqq * (1000 - KalmanGain(k.Pqq, 0))) \div 1000]

(***************************************************************************)
(* class ProductionStabilizer (default options)                            *)
(***************************************************************************)
NewStabilizer ==
  [positionFilters |-> [a \in Axes |-> NewOneEuro(800, 5)],
   rotationFilter |-> NewOneEuro(1200, 10),
   scaleFilters |-> [a \in Axes |-> NewOneEuro(500, 2)],
   kalman |-> NewKalman,
   doubleExp |-> [a \in Axes |-> NewDoubleExp],
   jitterSuppressors |-> [a \in Axes |-> NewJitter],
   position |-> Vec(0, 0, 0), angle |-> 0, scale |-> Vec(1000, 1000, 1000),
   velocity |-> Vec(0, 0, 0),
   initialized |-> FALSE, lastTimestamp |-> Null, lastConfidence |-> 100,
   metrics |-> [jitterLevel |-> 0, smoothness |-> 1000, latency |-> 0]]

\* A pose handed to update(): scale may be left out, confidence may be Null
Pose(position, angle, hasScale, scale, confidence) ==
  [position |-> position, angle |-> angle, hasScale |-> hasScale,
   scale |-> scale, confidence |-> confidence]

\* _getResult()
getResult(st) ==
  [position |-> st.position, angle |-> st.angle, scale |-> st.scale,
   velocity |-> st.velocity, confidence |-> st.lastConfidence,
   metrics |-> st.metrics]

\* _initialize(pose) without the copy of the scale
initialize_NoScale(st, pose, clock) ==
  [st EXCEPT !.position = pose.position, !.angle = pose.angle,
             !.initialized = TRUE, !.lastTimestamp = clock,
             !.kalman = KalmanUpdate(st.kalman, pose.position, pose.angle)]

\* _initialize(pose); clock is performance.now()
initialize(st, pose, clock) ==
  [st EXCEPT !.position = pose.position, !.angle = pose.angle,
             !.scale = IF pose.hasScale THEN pose.scale ELSE st.scale,
             !.initialized = TRUE, !.lastTimestamp = clock,
             !.kalman = KalmanUpdate(st.kalman, pose.position, pose.angle)]

\* _adaptSmoothing(confidence): minCutoff = config value * max(0.5, confidence)
adaptSmoothing(st, confidence) ==
  [st EXCEPT
     !.positionFilters = [a \in Axes |->
        [st.positionFilters[a] EXCEPT
           !.minCutoff = (800 * Max(50, confidence)) \div 100]],
     !.rotationFilter = [st.rotationFilter EXCEPT
           !.minCutoff = (1200 * Max(50, confidence)) \div 100]]

\* _processPosition(position, timestamp, dt): jitter suppression, One Euro,
\* double exponential smoothing, prediction by predictionSteps (0.5) * dt
processPosition(st, position, timestamp, dt) ==
  LET Staged(js, fs) ==
        LET Smoothed(ds) ==
              [st EXCEPT
                 !.jitterSuppressors = [a \in Axes |-> js[a].j],
                 !.positionFilters = fs,
                 !.doubleExp = ds,
                 !.velocity = [a \in Axes |-> ds[a].trend],
                 !.position = [a \in Axes |->
                    ds[a].level + (ds[a].trend * dt) \div 2000]]
        IN Only({Smoothed(ds) :
                   ds \in {[a \in Axes |->
                             DoubleExpSmooth(st.doubleExp[a], fs[a].x)]}})
      Suppressed(js) ==
        Only({Staged(js, fs) :
                fs \in {[a \in Axes |->
                          OneEuroFilter(st.positionFilters[a], js[a].out,
                                        timestamp)]}})
  IN Only({Suppressed(js) :
             js \in {[a \in Axes |->
                       JitterProcess(st.jitterSuppressors[a], position[a])]}})

\* _processRotation(quaternion, timestamp): the Euler angles are filtered
\* (x and y are 0 for a rotation about z), then slerp(quaternion, 0.1)
processRotation(st, angle, timestamp) ==
  Only({[st EXCEPT !.rotationFilter = f, !.angle = Lerp(f.x, angle, 100)] :
          f \in {OneEuroFilter(st.rotationFilter, angle, timestamp)}})

\* _processScale(scale, timestamp)
processScale(st, pose, timestamp) ==
  IF ~pose.hasScale THEN st
  ELSE Only({[st EXCEPT !.scaleFilters = fs,
                        !.scale = [a \in Axes |-> fs[a].x]] :
               fs \in {[a \in Axes |->
                         OneEuroFilter(st.scaleFilters[a], pose.scale[a],
                                       timestamp)]}})

\* _blendKalmanOutput(): blend = lastConfidence * 0.3
blendKalmanOutput(st) ==
  [st EXCEPT
     !.position = [a \in Axes |->
        Lerp(st.position[a], st.kalman.position[a], st.lastConfidence * 3)],
     !.angle = Lerp(st.angle, st.kalman.angle, st.lastConfidence * 3)]

\* _updateMetrics(): latency = predictionSteps * 16.67
stabilizerMetrics(st) ==
  LET jitterLevel == (Sqrt(st.jitterSuppressors["x"].variance)
                      + Sqrt(st.jitterSuppressors["y"].variance)
                      + Sqrt(st.jitterSuppressors["z"].variance)) \div 3
  IN [st EXCEPT !.metrics = [jitterLevel |-> jitterLevel,
                             smoothness |-> Max(0, 1000 - jitterLevel * 10),
                             latency |-> 8335]]

\* update(pose, timestamp) at time clock: [st, result].  A timestamp left out
\* (Null) or 0 is replaced by performance.now().
stabilizerUpdate(st, pose, timestamp, clock) ==
  LET ts == IF Truthy(timestamp) THEN timestamp ELSE clock
      dt == IF Truthy(st.lastTimestamp) THEN ts - st.lastTimestamp ELSE 16
      Return(s) == [st |-> s, result |-> getResult(s)]
      Metrics(s4) == Only({Return(s) : s \in {stabilizerMetrics(s4)}})
      Blend(s3) ==
        Only({Metrics(s4) :
                s4 \in {blendKalmanOutput(
                          [s3 EXCEPT !.kalman =
                             KalmanUpdate(KalmanPredict(s3.kalman, dt),
                                          s3.position, s3.angle)])}})
      Scale(s2) == Only({Blend(s3) : s3 \in {processScale(s2, pose, ts)}})
      Rotation(s1) ==
        Only({Scale(s2) : s2 \in {processRotation(s1, pose.angle, ts)}})
      Position(s0) ==
        Only({Rotation(s1) :
                s1 \in {processPosition(s0, pose.position, ts, dt)}})
  IN IF ~st.initialized
     THEN Only({Return(s) : s \in {initialize(st, pose, clock)}})
     ELSE Only({Position(s0) :
                  s0 \in {adaptSmoothing(
                            [st EXCEPT !.lastTimestamp = ts,
                                       !.lastConfidence =
                                          IF Truthy(pose.confidence)
                                          THEN pose.confidence ELSE 100],
                            IF Truthy(pose.confidence)
                            THEN pose.confidence ELSE 100)}})

\* reset(): every filter reset, the pose fields back to their initial values;
\* the filters keep the parameters _adaptSmoothing set, and metrics stays
stabilizerReset(st) ==
  [st EXCEPT
     !.positionFilters = [a \in Axes |-> OneEuroReset(st.positionFilters[a])],
     !.rotationFilter = OneEuroReset(st.rotationFilter),
     !.scaleFilters = [a \in Axes |-> OneEuroReset(st.scaleFilters[a])],
     !.kalman = NewKalman,
     !.doubleExp = [a \in Axes |-> NewDoubleExp],
     !.jitterSuppressors = [a \in Axes |-> NewJitter],
     !.position = Vec(0, 0, 0), !.angle = 0, !.scale = Vec(1000, 1000, 1000),
     !.velocity = Vec(0, 0, 0),
     !.initialized = FALSE, !.lastTimestamp = Null, !.lastConfidence = 100]

(***************************************************************************)
(* PoseStabilizer.js                                                       *)
(***************************************************************************)
NewPoseStabilizer ==
  [position |-> Vec(0, 0, 0), angle |-> 0, scale |-> Vec(1000, 1000, 1000),
   velocity |-> Vec(0, 0, 0), lastPosition |-> Vec(0, 0, 0),
   initialized |-> FALSE]

\* 1 - Math.pow(base, delta) for the frame times used, in thousandths:
\* base 0.001 (position), 0.0005 (rotation), 0.01 (scale)
SmoothingFactor(kind, delta) ==
  CASE kind = "position" -> IF delta <= 16 THEN 105 ELSE 204
    [] kind = "rotation" -> IF delta <= 16 THEN 115 ELSE 222
    [] kind = "scale" -> IF delta <= 16 THEN 71 ELSE 141

\* update(targetPos, targetRot, targetScale, delta); predictionFactor is 0.6
poseStabilizerUpdate(ps, targetPos, targetRot, targetScale, delta) ==
  IF ~ps.initialized
  THEN [ps EXCEPT !.position = targetPos, !.angle = targetRot,
                  !.scale = targetScale, !.lastPosition = targetPos,
                  !.initialized = TRUE]
  ELSE LET Predicted(smoothed) ==
             LET velocity == [a \in Axes |-> smoothed[a] - ps.lastPosition[a]]
                 position == [a \in Axes |->
                                smoothed[a] + (velocity[a] * 600) \div 1000]
             IN [ps EXCEPT
                   !.position = position,
                   !.angle = Lerp(ps.angle, targetRot,
                                  SmoothingFactor("rotation", delta)),
                   !.scale = [a \in Axes |->
                      Lerp(ps.scale[a], targetScale[a],
                           SmoothingFactor("scale", delta))],
                   !.velocity = velocity,
                   !.lastPosition = position]
       IN Only({Predicted(smoothed) :
                  smoothed \in {[a \in Axes |->
                     Lerp(ps.position[a], targetPos[a],
                          SmoothingFactor("position", delta))]}})

(***************************************************************************)
(* Actions on the stabilizers                                              *)
(***************************************************************************)
MaxStabUpdates == 3   \* update() calls on the ProductionStabilizer
MaxStabResets == 1    \* reset() calls on it
MaxPoseUpdates == 3   \* update() calls on the PoseStabilizer
MaxConfidenceUpdates == 3  \* update() calls in SpecConfidence

NoScale == Vec(0, 0, 0)

StabPoses ==
  { Pose(Vec(5000, 0 - 3000, 0 - 8000), 200, TRUE, Vec(1100, 1100, 1100), 80),
    Pose(Vec(5010, 0 - 2990, 0 - 8000), 210, FALSE, NoScale, Null),
    Pose(Vec(0 - 9000, 4000, 2000), 0 - 300, TRUE, Vec(900, 900, 900), 30) }

\* the time between two frames, ms
FrameTimes == {16, 33}

NewStabObs ==
  [lastOp |-> "new", updates |-> 0, resets |-> 0, poseUpdates |-> 0,
   \* the last update() was the first on a fresh or reset instance
   first |-> FALSE, poseFirst |-> FALSE,
   \* the pose the last update() was given
   input |-> Pose(Vec(0, 0, 0), 0, FALSE, NoScale, Null),
   \* a stabilizer constructed at the last reset() and given every update()
   \* since, and what its last update() returned
   fresh |-> NewStabilizer, freshResult |-> getResult(NewStabilizer),
   \* the last two update() calls that filtered: the confidence given and the
   \* minCutoff the position and rotation filters ran with
   applied |-> [present |-> FALSE], appliedBefore |-> [present |-> FALSE]]

StabInit ==
  /\ stabilizer = NewStabilizer
  /\ result = getResult(NewStabilizer)
  /\ poseStabilizer = NewPoseStabilizer
  /\ stabObs = NewStabObs

\* stabilizer.update(pose, timestamp), dt ms after the previous operation; the
\* timestamp is the clock, left out, or a time of another clock
StabUpdate ==
  /\ stabObs.updates < MaxStabUpdates
  /\ stabObs.poseUpdates = 0
  /\ \E pose \in StabPoses, dt \in FrameTimes :
       \E timestamp \in {now + dt, Null, 1} :
         \E res \in {stabilizerUpdate(stabilizer, pose, timestamp, now + dt)},
            twin \in {IF stabObs.resets = 0
                      THEN [st |-> stabObs.fresh, result |-> stabObs.freshResult]
                      ELSE stabilizerUpdate(stabObs.fresh, pose, timestamp,
                                            now + dt)} :
           /\ now' = now + dt
           /\ stabilizer' = res.st
           /\ result' = res.result
           /\ stabObs' = [stabObs EXCEPT !.lastOp = "update",
                                         !.updates = stabObs.updates + 1,
                                         !.first = ~stabilizer.initialized,
                                         !.input = pose,
                                         !.fresh = twin.st,
                                         !.freshResult = twin.result]
  /\ UNCHANGED <<poseStabilizer, notStabilizer>>

\* stabilizer.reset()
StabReset ==
  /\ stabObs.resets < MaxStabResets
  /\ stabObs.poseUpdates = 0
  /\ stabilizer' = stabilizerReset(stabilizer)
  /\ stabObs' = [stabObs EXCEPT !.lastOp = "reset",
                                !.resets = stabObs.resets + 1,
                                !.first = FALSE,
                                !.fresh = NewStabilizer,
                                !.freshResult = getResult(NewStabilizer)]
  /\ UNCHANGED <<now, result, poseStabilizer, notStabilizer>>

\* State.stabilizer.update(targetPosition, targetRotation, targetScale, delta).
\* A page drives one of the two stabilizers: main-v2.js the PoseStabilizer,
\* WorldClassFaceTracker the ProductionStabilizer.
PoseStabUpdate ==
  /\ stabObs.poseUpdates < MaxPoseUpdates
  /\ stabObs.updates = 0 /\ stabObs.resets = 0
  /\ \E pose \in {p \in StabPoses : p.hasScale}, delta \in FrameTimes :
       /\ poseStabilizer' = poseStabilizerUpdate(poseStabilizer, pose.position,
                                                 pose.angle, pose.scale, delta)
       /\ stabObs' = [stabObs EXCEPT !.lastOp = "poseUpdate",
                                     !.poseUpdates = stabObs.poseUpdates + 1,
                                     !.poseFirst = ~poseStabilizer.initialized,
                                     !.input = pose]
       /\ now' = now + delta
  /\ UNCHANGED <<stabilizer, result, notStabilizer>>

\* Confidences in [0, 1], percent
Confidences == {0, 20, 50, 60, 100}

\* stabilizer.update(pose) with a pose of any confidence
ConfidenceUpdate ==
  /\ stabObs.updates < MaxConfidenceUpdates
  /\ stabObs.lastOp \in {"new", "confidence"}
  /\ \E confidence \in Confidences :
       \E pose \in {Pose(Vec(1000, 2000, 0 - 5000), 100, TRUE,
                          Vec(1000, 1000, 1000), confidence)} :
         \E dt \in FrameTimes :
         \E res \in {stabilizerUpdate(stabilizer, pose, now + dt, now + dt)} :
           /\ now' = now + dt
           /\ stabilizer' = res.st
           /\ result' = res.result
           /\ stabObs' =
                [stabObs EXCEPT
                   !.lastOp = "confidence", !.updates = @ + 1,
                   !.first = ~stabilizer.initialized, !.input = pose,
                   !.applied =
                     IF stabilizer.initialized
                     THEN [present |-> TRUE, confidence |-> confidence,
                           position |-> res.st.positionFilters["x"].minCutoff,
                           rotation |-> res.st.rotationFilter.minCutoff]
                     ELSE @,
                   !.appliedBefore =
                     IF stabilizer.initialized THEN stabObs.applied ELSE @]
  /\ UNCHANGED <<poseStabilizer, notStabilizer>>

\* The constant-pose scenario: the same pose at every update() of a new
\* stabilizer, one frame time (16 ms) apart.  The rotations are small enough
\* for every slerp of the 30 updates to stay on the short arc Lerp follows.
RestUpdates == 30
RestPoses ==
  {p \in StabPoses : Abs(p.angle) <= 210} \cup
  { Pose(Vec(1000, 2000, 0 - 5000), 0, TRUE, Vec(1000, 1000, 1000), 100),
    Pose(Vec(0, 0, 0 - 6000), 100, TRUE, Vec(1200, 1200, 1200), 100),
    Pose(Vec(0 - 9000, 4000, 2000), 0 - 150, TRUE, Vec(900, 900, 900), 30) }

RestUpdate ==
  /\ stabObs.updates < RestUpdates
  /\ stabObs.lastOp \in {"new", "rest"}
  /\ \E pose \in IF stabObs.updates = 0 THEN RestPoses ELSE {stabObs.input} :
       \E res \in {stabilizerUpdate(stabilizer, pose, now + 16, now + 16)} :
         /\ now' = now + 16
         /\ stabilizer' = res.st
         /\ result' = res.result
         /\ stabObs' = [stabObs EXCEPT !.lastOp = "rest",
                                       !.updates = stabObs.updates + 1,
                                       !.first = ~stabilizer.initialized,
                                       !.input = pose]
  /\ UNCHANGED <<poseStabilizer, notStabilizer>>

(***************************************************************************)
(* WorldClassFaceTracker.js.  processFrame is async but awaits nothing: a   *)
(* call runs to its return, and another call can begin only inside a       *)
(* callback the frame fires (the monitor's callbacks, onTrackingUpdate).   *)
(* calls holds the activations that passed the isProcessing guard.         *)
(***************************************************************************)
MaxTrackerFrames == 3  \* processFrame calls of the render loop
MaxReappearFrames == 4  \* frames followed when a subject leaves and returns
MaxReentries == 2      \* processFrame calls made from callbacks
MaxDepth == 2          \* nested activations followed

NoTrackingData ==
  [present |-> FALSE, position |-> Vec(0, 0, 0), angle |-> 0,
   scale |-> Vec(1000, 1000, 1000), confidence |-> 0, frameCount |-> 0]

\* the tracker after initialize() has succeeded
NewTracker ==
  [isInitialized |-> TRUE, isProcessing |-> FALSE,
   currentTrackingData |-> NoTrackingData, frameCount |-> 0]

\* What the pose solver returns for a frame: nothing, or an estimate
NoEstimate ==
  [present |-> FALSE, translation |-> Vec(0, 0, 0), angle |-> 0,
   confidence |-> 0, reprojectionError |-> Null]
Estimates ==
  { NoEstimate,
    [present |-> TRUE, translation |-> Vec(5000, 0 - 3000, 0 - 8000),
     angle |-> 200, confidence |-> 80, reprojectionError |-> 10],
    [present |-> TRUE, translation |-> Vec(5010, 0 - 2990, 0 - 8000),
     angle |-> 210, confidence |-> 20, reprojectionError |-> 40] }

\* What the detector returns with a face: its confidence (0: none computed)
\* and whether the anatomy analysis measures a temple width (154 mm)
Detections ==
  { [confidence |-> 0, templeWidth |-> 0],
    [confidence |-> 50, templeWidth |-> 154] }

\* _buildTrackingData(detection, pose, anatomy).  Without an estimate the
\* position comes from landmark 6 and the roll from the eye line.
buildTrackingData(detection, pose) ==
  [position |-> IF pose.present THEN pose.translation
                ELSE Vec(5000, 5000, 0 - 2000),
   angle |-> IF pose.present THEN pose.angle ELSE 50,
   hasScale |-> TRUE,
   scale |-> IF detection.templeWidth # 0
             THEN Vec((detection.templeWidth * 1000) \div 140,
                      (detection.templeWidth * 1000) \div 140,
                      (detection.templeWidth * 1000) \div 140)
             ELSE Vec(1000, 1000, 1000),
   confidence |-> IF detection.confidence # 0 THEN detection.confidence
                  ELSE IF pose.present THEN pose.confidence ELSE 50]

\* if (this.isProcessing) return this.currentTrackingData, without the test
IsProcessingGuard_Missing(tr) == FALSE
\* the test of the guard
IsProcessingGuard(tr) == tr.isProcessing

NewTrackerObs ==
  [frames |-> 0, reentries |-> 0,
   \* detector, solver, stabilizer or monitor invoked by a nested activation
   nestedInvocations |-> 0,
   \* the last call from a callback: whether it got past the guard, and what
   \* it returned if it did not
   reentered |-> FALSE, reentryPassed |-> FALSE,
   reentryReturn |-> NoTrackingData,
   lastOp |-> "new",
   \* how the last activation ended: none, normal, noDetection, exception
   lastExit |-> "none",
   \* the ways activations have ended so far
   exits |-> {}]

TrackerInit ==
  /\ tracker = NewTracker
  /\ calls = <<>>
  /\ trackerObs = NewTrackerObs

Top == calls[Len(calls)]
Pop == SubSeq(calls, 1, Len(calls) - 1)
SetTop(frame) == [calls EXCEPT ![Len(calls)] = frame]
Invoked(o) ==
  [o EXCEPT !.nestedInvocations =
     o.nestedInvocations + (IF Len(calls) > 1 THEN 1 ELSE 0)]

\* the head of processFrame, up to this.isProcessing = true: the render loop
\* calls it between frames, a callback calls it inside one
Enter(ready, fromCallback) ==
  IF ~tracker.isInitialized \/ ~ready
  THEN /\ trackerObs' = [trackerObs EXCEPT
                           !.frames = @ + (IF fromCallback THEN 0 ELSE 1),
                           !.reentries = @ + (IF fromCallback THEN 1 ELSE 0),
                           !.lastOp = "notReady"]
       /\ UNCHANGED <<tracker, calls>>
  ELSE IF IsProcessingGuard(tracker)
  THEN /\ trackerObs' = [trackerObs EXCEPT
                           !.frames = @ + (IF fromCallback THEN 0 ELSE 1),
                           !.reentries = @ + (IF fromCallback THEN 1 ELSE 0),
                           !.reentered = TRUE, !.reentryPassed = FALSE,
                           !.reentryReturn = tracker.currentTrackingData,
                           !.lastOp = "guarded"]
       /\ UNCHANGED <<tracker, calls>>
  ELSE /\ tracker' = [tracker EXCEPT !.isProcessing = TRUE]
       /\ calls' = Append(calls, [pc |-> "detect", detection |-> [confidence |-> 0, templeWidth |-> 0],
                                  raw |-> Pose(Vec(0, 0, 0), 0, FALSE, NoScale, Null),
                                  estimate |-> NoEstimate])
       /\ trackerObs' = [trackerObs EXCEPT
                           !.frames = @ + (IF fromCallback THEN 0 ELSE 1),
                           !.reentries = @ + (IF fromCallback THEN 1 ELSE 0),
                           !.reentered = fromCallback,
                           !.reentryPassed = fromCallback,
                           !.lastOp = "entered"]

notTracker == <<monitorVars, stabVars, solverVars, calibVars>>

\* the render loop: AppState.tracker.processFrame(timestamp), one frame time
\* after the previous operation
ProcessFrame ==
  /\ calls = <<>>
  /\ trackerObs.frames < MaxTrackerFrames
  /\ now' = now + 33
  /\ \E ready \in BOOLEAN : Enter(ready, FALSE)
  /\ UNCHANGED notTracker

\* the render loop with the video ready, followed for longer runs of frames
ProcessReadyFrame ==
  /\ calls = <<>>
  /\ trackerObs.frames < MaxReappearFrames
  /\ now' = now + 33
  /\ Enter(TRUE, FALSE)
  /\ UNCHANGED notTracker

\* a callback fired by the frame calls processFrame
Reenter ==
  /\ calls # <<>> /\ Len(calls) < MaxDepth
  /\ Top.pc \in {"lostCallbacks", "monitorCallbacks", "updateCallback"}
  /\ trackerObs.reentries < MaxReentries
  /\ Enter(TRUE, TRUE)
  /\ UNCHANGED <<now, notTracker>>

\* qualityMonitor.update(data) inside a frame, with the tracker's handlers:
\* onTrackingLost resets the stabilizer
MonitorInFrame(td, st) ==
  \E res \in {update(monitor, td, now)} :
    /\ monitor' = res.mon
    /\ assessment' = res.assessment
    /\ fired' = res.fired
    /\ obs' = ObserveUpdate(obs, monitor, td, res, now)
    /\ stabilizer' = IF res.fired.onTrackingLost THEN stabilizerReset(st) ELSE st

\* Step 1: detectForVideo.  No face: _handleNoDetection updates the monitor.
Detect ==
  /\ calls # <<>> /\ Top.pc = "detect"
  /\ \/ /\ MonitorInFrame(NoData, stabilizer)
        /\ calls' = SetTop([Top EXCEPT !.pc = "lostCallbacks"])
        /\ trackerObs' = [Invoked(trackerObs) EXCEPT !.lastOp = "step"]
        /\ UNCHANGED <<result, stabObs>>
     \/ /\ \E detection \in Detections :
             calls' = SetTop([Top EXCEPT !.pc = "estimate",
                                         !.detection = detection])
        /\ trackerObs' = [Invoked(trackerObs) EXCEPT !.lastOp = "step"]
        /\ UNCHANGED <<monitorVars, stabilizer, result, stabObs>>
  /\ UNCHANGED <<now, tracker, poseStabilizer, solverVars, calibVars>>

\* the rest of _handleNoDetection, and the return
FinishNoDetection ==
  /\ calls # <<>> /\ Top.pc = "lostCallbacks"
  /\ tracker' = [tracker EXCEPT !.currentTrackingData = NoTrackingData,
                                !.isProcessing = FALSE]
  /\ calls' = Pop
  /\ trackerObs' = [trackerObs EXCEPT !.lastExit = "noDetection", !.lastOp = "exit",
                                      !.exits = @ \cup {"noDetection"}]
  /\ UNCHANGED <<now, notTracker>>

\* Steps 2 to 4: poseEstimator.estimate, the anatomy analysis,
\* _buildTrackingData
Estimate ==
  /\ calls # <<>> /\ Top.pc = "estimate"
  /\ \E estimate \in Estimates :
       calls' = SetTop([Top EXCEPT
                          !.pc = "stabilize", !.estimate = estimate,
                          !.raw = buildTrackingData(Top.detection, estimate)])
  /\ trackerObs' = [Invoked(trackerObs) EXCEPT !.lastOp = "step"]
  /\ UNCHANGED <<now, tracker, notTracker>>

\* Step 5: stabilizer.update(pose, timestamp / 1000)
Stabilize ==
  /\ calls # <<>> /\ Top.pc = "stabilize"
  /\ \E res \in {stabilizerUpdate(stabilizer, Top.raw, now, now)} :
       /\ stabilizer' = res.st
       /\ result' = res.result
       /\ stabObs' = [stabObs EXCEPT !.lastOp = "update",
                                     !.updates = stabObs.updates + 1,
                                     !.first = ~stabilizer.initialized,
                                     !.input = Top.raw]
  /\ calls' = SetTop([Top EXCEPT !.pc = "monitor"])
  /\ trackerObs' = [Invoked(trackerObs) EXCEPT !.lastOp = "step"]
  /\ UNCHANGED <<now, tracker, monitorVars, poseStabilizer, solverVars, calibVars>>

\* Step 6: qualityMonitor.update({...rawTrackingData, landmarks})
MonitorStep ==
  /\ calls # <<>> /\ Top.pc = "monitor"
  /\ MonitorInFrame(TD(Top.raw.confidence, Null, Null,
                       Top.estimate.reprojectionError, Null, TRUE,
                       <<Inside, Inside>>, Null), stabilizer)
  /\ calls' = SetTop([Top EXCEPT !.pc = "monitorCallbacks"])
  /\ trackerObs' = [Invoked(trackerObs) EXCEPT !.lastOp = "step"]
  /\ UNCHANGED <<now, tracker, result, poseStabilizer, stabObs, solverVars,
                 calibVars>>

\* Step 7: the result is stored, _updateFrameTiming, onTrackingUpdate fires
Publish ==
  /\ calls # <<>> /\ Top.pc = "monitorCallbacks"
  /\ tracker' = [tracker EXCEPT
       !.currentTrackingData =
          [present |-> TRUE, position |-> result.position,
           angle |-> result.angle, scale |-> result.scale,
           confidence |-> Top.raw.confidence,
           frameCount |-> tracker.frameCount],
       !.frameCount = tracker.frameCount + 1]
  /\ calls' = SetTop([Top EXCEPT !.pc = "updateCallback"])
  /\ trackerObs' = [trackerObs EXCEPT !.lastOp = "step"]
  /\ UNCHANGED <<now, notTracker>>

\* this.isProcessing = false; return this.currentTrackingData
Return ==
  /\ calls # <<>> /\ Top.pc = "updateCallback"
  /\ tracker' = [tracker EXCEPT !.isProcessing = FALSE]
  /\ calls' = Pop
  /\ trackerObs' = [trackerObs EXCEPT !.lastExit = "normal", !.lastOp = "exit",
                                      !.exits = @ \cup {"normal"}]
  /\ UNCHANGED <<now, notTracker>>

\* a step of the try block throws: catch sets isProcessing false, returns null
Throw ==
  /\ calls # <<>> /\ Top.pc \in {"detect", "estimate", "stabilize", "monitor"}
  /\ tracker' = [tracker EXCEPT !.isProcessing = FALSE]
  /\ calls' = Pop
  /\ trackerObs' = [trackerObs EXCEPT !.lastExit = "exception", !.lastOp = "exit",
                                      !.exits = @ \cup {"exception"}]
  /\ UNCHANGED <<now, notTracker>>

(***************************************************************************)
(* AdvancedPoseEstimator (AdvancedPoseEstimator.js)                        *)
(* Image sizes and focal lengths in pixels.                                *)
(***************************************************************************)

MaxEstimates == 2          \* estimate() calls
MaxIntrinsicsUpdates == 2  \* setCameraIntrinsics() calls
minCorrespondences == 6
maxHistoryLength == 10

\* FaceModel3D.landmarkIndices: the keys of landmarkToModel in the order
\* Object.entries gives them (integer keys ascending)
landmarkIndices ==
  <<1, 6, 10, 13, 14, 33, 50, 61, 70, 98, 133, 152, 172, 234, 263, 280, 291,
    300, 327, 362, 397, 454>>

\* A landmark array: its length (Null: no array was passed) and the indices
\* whose entry is there without finite x and y.
NoLandmarks == [length |-> Null, notFinite |-> {}]
LandmarkSets ==
  {NoLandmarks} \cup
  [length : {0, 14, 33, 34, 478}, notFinite : {{}, {1}, {1, 33}}]

\* new CameraIntrinsics(width, height, focalLength)
NewCamera(width, height, focalLength) ==
  [width |-> width, height |-> height,
   focalLength |-> IF Truthy(focalLength) THEN focalLength
                   ELSE Max(width, height),
   cx |-> width \div 2, cy |-> height \div 2]

\* CameraIntrinsics.update(width, height, focalLength)
cameraUpdate(camera, width, height, focalLength) ==
  [width |-> width, height |-> height,
   focalLength |-> IF Truthy(focalLength) THEN focalLength
                   ELSE camera.focalLength,
   cx |-> width \div 2, cy |-> height \div 2]

\* new AdvancedPoseEstimator(): both optional solver stages are on by default
NewPoseEstimator ==
  [camera |-> NewCamera(640, 480, Null), historyLength |-> 0,
   options |-> [useRANSAC |-> TRUE, refinePose |-> TRUE]]

\* _buildCorrespondences: the mapped landmark indices, in model order, whose
\* landmark is in the array with finite x and y
buildCorrespondences(landmarks) ==
  SelectSeq(landmarkIndices,
            LAMBDA idx : idx < landmarks.length /\ idx \notin landmarks.notFinite)

\* the check before PnP, comparing with the 4 points _solvePnP needs
TooFewCorrespondences_PnPMinimum(correspondences) ==
  Len(correspondences) < 4

\* correspondences.length < 6
TooFewCorrespondences(correspondences) ==
  Len(correspondences) < minCorrespondences

\* estimate(landmarks, options): [est, correspondences, result].  size is the
\* frame size of options (a Null width or height: left out).  RANSAC returns at least 6 inliers
\* or every correspondence, so _solvePnP is given 4 or more; whether the
\* linear solve degenerates depends on the coordinates and on Math.random():
\* solved is its outcome.
estimate(est, landmarks, size, solved) ==
  LET width == IF Truthy(size.width) THEN size.width ELSE est.camera.width
      height == IF Truthy(size.height) THEN size.height ELSE est.camera.height
      camera == IF width # est.camera.width \/ height # est.camera.height
                THEN cameraUpdate(est.camera, width, height, Null)
                ELSE est.camera
      correspondences == buildCorrespondences(landmarks)
  IN IF landmarks.length = Null \/ landmarks.length = 0
     THEN [est |-> est, correspondences |-> <<>>, result |-> NoEstimate]
     ELSE IF TooFewCorrespondences(correspondences) \/ ~solved.present
     THEN [est |-> [est EXCEPT !.camera = camera],
           correspondences |-> correspondences, result |-> NoEstimate]
     ELSE [est |-> [est EXCEPT !.camera = camera,
                               !.historyLength =
                                  Min(est.historyLength + 1, maxHistoryLength)],
           correspondences |-> correspondences, result |-> solved]

\* video sizes, and the focal lengths callers pass (Null: argument left out)
FrameSizes == {[width |-> 640, height |-> 480], [width |-> 1280, height |-> 720]}
FocalLengths == {Null, 100, 800, 5000}

NewPoseResult ==
  [estimates |-> 0, intrinsicsUpdates |-> 0, lastOp |-> "new",
   landmarks |-> NoLandmarks, correspondences |-> <<>>, result |-> NoEstimate,
   \* the solver stages the last estimate() ran, the positions it solved
   \* from and the pose _initialEstimateDLT gave
   stages |-> <<>>, inliers |-> {}, initial |-> NoEstimate,
   \* the estimate() before the last: its correspondences, whether it returned a pose
   previousCount |-> Null, previousPresent |-> FALSE]

EstimatorInit ==
  /\ poseEstimator = NewPoseEstimator
  /\ poseResult = NewPoseResult

\* poseEstimator.setCameraIntrinsics(width, height, focalLength)
SetCameraIntrinsics ==
  /\ poseResult.intrinsicsUpdates < MaxIntrinsicsUpdates
  /\ \E size \in FrameSizes, focalLength \in FocalLengths :
       poseEstimator' =
         [poseEstimator EXCEPT
            !.camera = cameraUpdate(poseEstimator.camera, size.width,
                                    size.height, focalLength)]
  /\ poseResult' = [poseResult EXCEPT !.intrinsicsUpdates = @ + 1,
                                      !.lastOp = "setCameraIntrinsics"]
  /\ UNCHANGED <<now, focal, ransac, monitorVars, stabVars, trackerVars, calibVars>>

\* poseEstimator.estimate(landmarks, {width, height})
EstimatePose ==
  /\ poseResult.estimates < MaxEstimates
  /\ \E landmarks \in LandmarkSets,
        size \in FrameSizes \cup {[width |-> Null, height |-> Null]},
        solved \in Estimates :
       \E res \in {estimate(poseEstimator, landmarks, size, solved)} :
         /\ poseEstimator' = res.est
         /\ poseResult' =
              [poseResult EXCEPT
                 !.estimates = @ + 1, !.lastOp = "estimate",
                 !.landmarks = landmarks,
                 !.correspondences = res.correspondences,
                 !.result = res.result,
                 !.previousCount = IF poseResult.estimates = 0 THEN Null
                                   ELSE Len(poseResult.correspondences),
                 !.previousPresent = poseResult.result.present]
  /\ UNCHANGED <<now, focal, ransac, monitorVars, stabVars, trackerVars, calibVars>>

(***************************************************************************)
(* RANSAC (AdvancedPoseEstimator.js)                                       *)
(* Model coordinates in tenths of a millimetre, image coordinates in       *)
(* pixels.  Positions in a correspondence array count from 1.              *)
(***************************************************************************)

\* FaceModel3D.vertices: the canonical vertex of each entry of landmarkIndices
modelVertices ==
  << Vec(0, 0 - 52, 185), Vec(0, 50, 100), Vec(0, 350, 80),
     Vec(0, 0 - 250, 120), Vec(0, 0 - 350, 100), Vec(325, 85, 85),
     Vec(500, 0 - 100, 100), Vec(240, 0 - 300, 100), Vec(400, 200, 60),
     Vec(120, 0 - 150, 150), Vec(125, 85, 100), Vec(0, 0 - 550, 50),
     Vec(450, 0 - 450, 0), Vec(750, 0 - 50, 0 - 50), Vec(0 - 325, 85, 85),
     Vec(0 - 500, 0 - 100, 100), Vec(0 - 240, 0 - 300, 100),
     Vec(0 - 400, 200, 60), Vec(0 - 120, 0 - 150, 150),
     Vec(0 - 125, 85, 100), Vec(0 - 450, 0 - 450, 0),
     Vec(0 - 750, 0 - 50, 0 - 50) >>

\* RANSAC.findInliers(correspondences, model => camera.project(model)): the
\* positions returned.  Every iteration with a valid sample computes the same
\* inlier set (points whose image lies within inlierThreshold, 10 pixels, of
\* the camera projection of their model vertex); validDrawn tells whether
\* Math.random drew a valid sample in any of the iterations.
findInliers(correspondences, camera, validDrawn) ==
  LET n == Len(correspondences)
      Projected(m) ==
        [x |-> (camera.focalLength * m.x) \div m.z + camera.cx,
         y |-> (camera.focalLength * m.y) \div m.z + camera.cy]
      Near(p, q) ==
        /\ Abs(p.x - q.x) < 10 /\ Abs(p.y - q.y) < 10
        /\ (p.x - q.x) * (p.x - q.x) + (p.y - q.y) * (p.y - q.y) < 100
      inliers == {i \in 1..n :
                    /\ correspondences[i].model.z > 0
                    /\ Near(Projected(correspondences[i].model),
                            correspondences[i].image)}
      bestInliers == IF validDrawn THEN inliers ELSE {}
  IN IF n < 6 THEN 1..n
     ELSE IF Cardinality(bestInliers) >= 6 THEN bestInliers ELSE 1..n

\* _isValidSample on some sample of 4 positions: no three of its image
\* points span a triangle of doubled area under 100
SampleValidity(correspondences) ==
  LET Doubled(p, q, r) ==
        Abs((q.x - p.x) * (r.y - p.y) - (r.x - p.x) * (q.y - p.y))
      Valid(sample) ==
        \A t \in SUBSET sample :
          Cardinality(t) = 3 =>
            \E i, j, k \in t :
              /\ i < j /\ j < k
              /\ Doubled(correspondences[i].image, correspondences[j].image,
                         correspondences[k].image) >= 100
  IN {Valid(sample) : sample \in {q \in SUBSET (1..Len(correspondences)) :
                                    Cardinality(q) = 4}}

\* The correspondences _buildCorrespondences gives for a face seen frontally
\* at the given depth (0: the camera at the model origin): the clean model
\* positions at their true projection, and the position outlier displaced by
\* shift from its own.
Correspondences(camera, clean, outlier, shift, depth) ==
  LET positions == SelectSeq([i \in 1..Len(landmarkIndices) |-> i],
                             LAMBDA i : i \in clean \cup {outlier})
      True(m) ==
        [x |-> (camera.focalLength * m.x) \div (m.z + depth) + camera.cx,
         y |-> (camera.focalLength * m.y) \div (m.z + depth) + camera.cy]
  IN [k \in 1..Len(positions) |->
        [model |-> modelVertices[positions[k]],
         position |-> positions[k],
         image |-> IF positions[k] = outlier
                   THEN [x |-> True(modelVertices[positions[k]]).x + shift.x,
                         y |-> True(modelVertices[positions[k]]).y + shift.y]
                   ELSE True(modelVertices[positions[k]])]]

\* clean model positions (6, 6 and 8 of them, all in front of the model
\* origin), the displaced one, displacements in pixels, depths
CleanSets == {1..6, 6..11, {1, 2, 9, 10, 15, 18, 19, 20}}
Outliers == {12, 16}
Shifts == {[x |-> 300, y |-> 0], [x |-> 0, y |-> 0 - 200]}
Depths == {0, 5000}

NewRansac ==
  [calls |-> 0, clean |-> {}, outlier |-> 0, shift |-> [x |-> 0, y |-> 0],
   depth |-> 0, validDrawn |-> FALSE, result |-> {}]

RansacInit == ransac = NewRansac

\* this.ransac.findInliers(correspondences, model => this.camera.project(model))
\* as estimate() calls it.  The model-origin view is taken with focal lengths
\* up to 800 only (products of its image coordinates stay within 32 bits).
FindInliers ==
  /\ \E clean \in CleanSets, outlier \in Outliers, shift \in Shifts,
        depth \in Depths :
       /\ depth = 0 => poseEstimator.camera.focalLength <= 800
       /\ \E correspondences \in {Correspondences(poseEstimator.camera, clean,
                                                  outlier, shift, depth)} :
            \E validDrawn \in SampleValidity(correspondences) :
              ransac' =
                [calls |-> 1, clean |-> clean, outlier |-> outlier,
                 shift |-> shift, depth |-> depth, validDrawn |-> validDrawn,
                 result |-> {correspondences[i].position :
                               i \in findInliers(correspondences,
                                                 poseEstimator.camera,
                                                 validDrawn)}]
  /\ UNCHANGED <<now, poseEstimator, poseResult, focal, monitorVars, stabVars,
                 trackerVars, calibVars>>

\* new AdvancedPoseEstimator({useRANSAC, refinePose}) with booleans
NewPoseEstimatorWith(ransacOption, refineOption) ==
  [NewPoseEstimator EXCEPT
     !.options = [useRANSAC |-> ransacOption, refinePose |-> refineOption]]

\* _iterativeRefinement(pose, correspondences): Gauss-Newton.  delta is what
\* the first _solveNormalEquations gives (Null: the normal equations are
\* singular and the loop breaks with the pose it was given); the steps of
\* the later iterations are summed into it.
iterativeRefinement(pose, delta) ==
  IF delta = Null THEN pose
  ELSE [pose EXCEPT !.translation.z = @ + delta, !.angle = @ + delta]

\* _solvePnP(correspondences): [pose, initial, stages].  dlt is what
\* _initialEstimateDLT returns for them.
solvePnP(correspondences, dlt, delta) ==
  IF Len(correspondences) < 4
  THEN [pose |-> NoEstimate, initial |-> NoEstimate, stages |-> <<>>]
  ELSE IF ~dlt.present
  THEN [pose |-> NoEstimate, initial |-> NoEstimate,
        stages |-> <<"initialEstimateDLT">>]
  ELSE [pose |-> iterativeRefinement(dlt, delta), initial |-> dlt,
        stages |-> <<"initialEstimateDLT", "iterativeRefinement">>]

\* _refinePose(pose, correspondences): the body is empty
refinePose(pose, correspondences) == pose

\* estimate() from the correspondences on: outlier rejection, PnP and the
\* optional refinement.  [est, inliers, initial, stages, result]
solveStages(est, correspondences, validDrawn, dlt, delta) ==
  LET n == Len(correspondences)
      inlierIndices ==
        IF est.options.useRANSAC
        THEN findInliers(correspondences, est.camera, validDrawn)
        ELSE 1..n
      kept == SelectSeq([i \in 1..n |-> i], LAMBDA i : i \in inlierIndices)
      inlierCorrespondences == [k \in 1..Len(kept) |-> correspondences[kept[k]]]
      first == IF est.options.useRANSAC THEN <<"findInliers">> ELSE <<>>
  IN IF n < minCorrespondences
     THEN [est |-> est, inliers |-> {}, initial |-> NoEstimate,
           stages |-> <<>>, result |-> NoEstimate]
     ELSE
       LET solved == solvePnP(inlierCorrespondences, dlt, delta)
       IN IF ~solved.pose.present
          THEN [est |-> est, inliers |-> inlierIndices,
                initial |-> solved.initial,
                stages |-> first \o solved.stages, result |-> NoEstimate]
          ELSE [est |-> [est EXCEPT !.historyLength =
                                      Min(@ + 1, maxHistoryLength)],
                inliers |-> inlierIndices, initial |-> solved.initial,
                stages |-> first \o solved.stages \o
                           (IF est.options.refinePose
                            THEN <<"refinePose">> ELSE <<>>),
                result |-> IF est.options.refinePose
                           THEN refinePose(solved.pose, inlierCorrespondences)
                           ELSE solved.pose]

\* the steps Gauss-Newton takes from the DLT pose (Null: none)
Deltas == {Null, 10}

\* poseEstimator = new AdvancedPoseEstimator({useRANSAC, refinePose})
NewEstimator ==
  /\ \E ransacOption \in BOOLEAN, refineOption \in BOOLEAN :
       poseEstimator' = NewPoseEstimatorWith(ransacOption, refineOption)
  /\ poseResult' = NewPoseResult
  /\ UNCHANGED <<now, focal, ransac, monitorVars, stabVars, trackerVars,
                 calibVars>>

\* poseEstimator.estimate(landmarks) on the landmarks of a face seen
\* frontally, one of them displaced
Solve ==
  /\ poseResult.estimates < MaxEstimates
  /\ \E clean \in CleanSets, outlier \in Outliers, shift \in Shifts,
        depth \in Depths, dlt \in Estimates, delta \in Deltas :
       \E correspondences \in {Correspondences(poseEstimator.camera, clean,
                                               outlier, shift, depth)} :
         \E validDrawn \in SampleValidity(correspondences) :
           \E res \in {solveStages(poseEstimator, correspondences,
                                   validDrawn, dlt, delta)} :
             /\ poseEstimator' = res.est
             /\ poseResult' =
                  [poseResult EXCEPT
                     !.estimates = @ + 1, !.lastOp = "solve",
                     !.correspondences =
                        [i \in 1..Len(correspondences) |->
                           correspondences[i].position],
                     !.stages = res.stages,
                     !.inliers = {correspondences[i].position :
                                    i \in res.inliers},
                     !.initial = res.initial,
                     !.result = res.result]
  /\ UNCHANGED <<now, focal, ransac, monitorVars, stabVars, trackerVars,
                 calibVars>>

(***************************************************************************)
(* CameraCalibrator (CameraCalibrator.js)                                  *)
(* Landmark coordinates in thousandths of the image size, pixel distances  *)
(* in pixels, focal lengths in tenths of a pixel.                          *)
(***************************************************************************)

REAL_IPD_MM == 63


\* An eye landmark: left out of the array, or a point.
MissingPoint == [present |-> FALSE, x |-> 0, y |-> 0]
Point(x, y) == [present |-> TRUE, x |-> x, y |-> y]

\* Math.hypot(a, b), rounded down; NaN if either is NaN
Hypot(a, b) == IF a = NaN \/ b = NaN THEN NaN ELSE Sqrt(a * a + b * b)

\* estimateFocalLength(landmarks, imageWidth), landmarks given by its entries
\* 33 and 263 (hasLandmarks FALSE: null was passed, reading an entry throws
\* and the catch returns null).  A comparison with NaN is false.
estimateFocalLength(hasLandmarks, leftEye, rightEye, imageWidth) ==
  LET Scaled(a, b) == IF a = NaN \/ b = NaN THEN NaN
                      ELSE ((a - b) * imageWidth) \div 1000
      pixelDistance == Hypot(Scaled(rightEye.x, leftEye.x),
                             Scaled(rightEye.y, leftEye.y))
      focalLength == IF pixelDistance = NaN THEN NaN
                     ELSE (pixelDistance * REAL_IPD_MM * 10) \div 30
  IN IF ~hasLandmarks THEN Null
     ELSE IF ~leftEye.present \/ ~rightEye.present THEN Null
     ELSE IF pixelDistance # NaN /\ (pixelDistance < 20 \/ pixelDistance > 200)
     THEN Null
     ELSE IF focalLength # NaN /\ (focalLength < 5000 \/ focalLength > 30000)
     THEN Null
     ELSE focalLength

\* Eye landmarks given to the calibrator.  Around the limits the distances
\* are whole pixels: from (400, 500), 20 and 200 thousandths of a 1000 pixel
\* image are 20 and 200 pixels, (12, 16) thousandths is 20 pixels.
LeftEyes == {MissingPoint, Point(400, 500), Point(NaN, 500)}
RightEyes ==
  { MissingPoint, Point(405, 500), Point(418, 500), Point(420, 500),
    Point(412, 516), Point(600, 500), Point(602, 500), Point(520, 660),
    Point(5400, 500), Point(NaN, 500), Point(600, NaN) }
ImageWidths == {500, 640, 1000, 2000}

NewFocal ==
  [calls |-> 0, hasLandmarks |-> FALSE, leftEye |-> MissingPoint,
   rightEye |-> MissingPoint, imageWidth |-> 0, result |-> Null]

CalibratorInit == focal = NewFocal

\* calibrator.estimateFocalLength(landmarks, imageWidth)
EstimateFocalLength ==
  /\ \E hasLandmarks \in BOOLEAN, leftEye \in LeftEyes, rightEye \in RightEyes,
        imageWidth \in ImageWidths :
       /\ hasLandmarks \/ (leftEye = MissingPoint /\ rightEye = MissingPoint)
       /\ focal' = [calls |-> 1, hasLandmarks |-> hasLandmarks,
                    leftEye |-> leftEye, rightEye |-> rightEye,
                    imageWidth |-> imageWidth,
                    result |-> estimateFocalLength(hasLandmarks, leftEye,
                                                   rightEye, imageWidth)]
  /\ UNCHANGED <<now, poseEstimator, poseResult, ransac, monitorVars, stabVars,
                 trackerVars, calibVars>>

(***************************************************************************)
(* CameraProfileManager: calibration profiles in localStorage, and the     *)
(* ProfessionalFaceTracker's start from them.  Dates are Date.now() in     *)
(* days, focal lengths in pixels.                                          *)
(***************************************************************************)
MaxDate == 31      \* the last day followed
MaxSaves == 2      \* profileMgr.save() calls
MaxLoads == 2      \* profileMgr.load() calls
MaxStartups == 2   \* ProfessionalFaceTracker constructions

NoProfile == [present |-> FALSE]

\* new CameraProfileManager(): the profiles come from localStorage
NewProfileMgr(stored) == [profiles |-> stored]

\* `${deviceId}_${width}x${height}`: width and height are numbers, and the
\* device ids used here hold no digits after their last "_" but the stamp.
generateProfileKey(deviceId, width, height) == <<deviceId, width, height>>

\* save(deviceId, focalLength, width, height): the manager afterwards;
\* _saveProfiles() then writes its profiles to localStorage.
save(mgr, deviceId, focalLength, width, height, today) ==
  LET key == generateProfileKey(deviceId, width, height)
      profile == [present |-> TRUE, deviceId |-> deviceId,
                  focalLength |-> focalLength, width |-> width,
                  height |-> height, timestamp |-> today]
  IN [mgr EXCEPT !.profiles =
        [k \in DOMAIN mgr.profiles \cup {key} |->
           IF k = key THEN profile ELSE mgr.profiles[k]]]

ProfileExpired_AtThirtyDays(age) == age >= 30

\* age > 30 * 24 * 60 * 60 * 1000
ProfileExpired(age) == age > 30

\* load(deviceId, width, height): the manager afterwards and what is returned
load(mgr, deviceId, width, height, today) ==
  LET key == generateProfileKey(deviceId, width, height)
  IN IF key \notin DOMAIN mgr.profiles
     THEN [mgr |-> mgr, profile |-> NoProfile]
     ELSE IF ProfileExpired(today - mgr.profiles[key].timestamp)
     THEN [mgr |-> [mgr EXCEPT !.profiles =
                      [k \in DOMAIN mgr.profiles \ {key} |-> mgr.profiles[k]]],
           profile |-> NoProfile]
     ELSE [mgr |-> mgr, profile |-> mgr.profiles[key]]

\* _getDeviceId(): `${navigator.userAgent}_${screen.width}x${screen.height}_${Date.now()}`.
\* The stamp is the construction's millisecond: one per construction.
getDeviceId(device, stamp) == [device |-> device, stamp |-> stamp]

\* The video of the tracker: videoWidth x videoHeight
VideoSize == [width |-> 640, height |-> 480]

\* What FaceMesh reports for a frame: no face, or the landmarks of one.  valid
\* is what _validateLandmarks gives for them, anatomy whether the cheek, jaw
\* and nose-bridge landmarks computeSellionOffset and computeTempleWidth read
\* are there; the eyes are landmarks 33 and 263.  fresh marks the landmarks
\* of the frame in progress.
NoFace ==
  [present |-> FALSE, valid |-> FALSE, anatomy |-> FALSE, fresh |-> FALSE,
   leftEye |-> MissingPoint, rightEye |-> MissingPoint]
Face(valid, anatomy, rightEye) ==
  [present |-> TRUE, valid |-> valid, anatomy |-> anatomy, fresh |-> TRUE,
   leftEye |-> Point(400, 500), rightEye |-> rightEye]

\* currentTransform = null, and the transform _processStandardTracking builds
NoTransform ==
  [present |-> FALSE, fromFresh |-> FALSE, hasEarDetection |-> FALSE,
   calibrationState |-> "", frameCount |-> 0]

\* HeadPoseEstimator.cameraIntrinsics = null
NoIntrinsics ==
  [focalLength |-> Null, cx |-> 0, cy |-> 0, width |-> 0, height |-> 0]

MaxFilterSteps == 2

NewFrameObs ==
  [order |-> <<>>, processed |-> 0, filtered |-> 0, written |-> 0,
   fromEarlier |-> FALSE, face |-> NoFace, poseLandmarks |-> FALSE,
   returned |-> NoTransform]

\* new ProfessionalFaceTracker(video, callbacks), initialised
NewProTracker(stamp) ==
  [calibrationState |-> "LOADING", cameraIntrinsics |-> Null,
   deviceId |-> getDeviceId("thisDevice", stamp),
   \* state management; FaceMesh and Holistic both initialised
   frameCount |-> 0, trackingState |-> "INITIALIZING",
   currentTransform |-> NoTransform, hasHolistic |-> TRUE,
   \* poseFilter: the filter() calls since it was constructed or reset,
   \* counted up to MaxFilterSteps
   poseFilter |-> 0,
   \* poseEstimator.cameraIntrinsics
   estimatorIntrinsics |-> NoIntrinsics,
   \* temporary storage for multi-system sync
   currentFaceLandmarks |-> NoFace, currentPoseLandmarks |-> FALSE,
   \* processFrame in progress: the results FaceMesh and Holistic will report
   \* and the callbacks still to come
   inFrame |-> FALSE, sent |-> [face |-> NoFace, poseLandmarks |-> FALSE],
   pending |-> {}]

\* _loadCameraProfile(): the tracker and its manager afterwards
loadCameraProfile(tr, mgr, today) ==
  LET w == IF Truthy(VideoSize.width) THEN VideoSize.width ELSE 1280
      h == IF Truthy(VideoSize.height) THEN VideoSize.height ELSE 720
      loaded == load(mgr, tr.deviceId, w, h, today)
      cached == loaded.profile
      \* cached?.focal: undefined on null and on a record without the field
      cachedFocal == IF cached.present /\ "focal" \in DOMAIN cached
                     THEN cached["focal"] ELSE Null
  IN [mgr |-> loaded.mgr,
      tr |-> IF Truthy(cachedFocal)
             THEN [tr EXCEPT !.cameraIntrinsics =
                               [focalLength |-> cachedFocal, cx |-> w \div 2,
                                cy |-> h \div 2, width |-> w, height |-> h],
                             !.calibrationState = "CALIBRATED"]
             ELSE [tr EXCEPT !.calibrationState = "CALIBRATING"]]

\* The device ids profiles are saved and loaded for: those of the trackers
\* constructed so far.
ProfileDevices == {getDeviceId("thisDevice", stamp) : stamp \in 1..calibObs.startups}
ProfileFocals == {800, 1200}
DaySteps == {30, 31}

NewCalibObs ==
  [saves |-> 0, loads |-> 0, startups |-> 1, lastOp |-> "new",
   key |-> <<>>, returned |-> NoProfile,
   \* the last save() of each key: its focal length and its day
   saved |-> [k \in {} |-> NoProfile],
   \* the calibrator: its calls, the calibrator before the last call and
   \* what that call returned
   sampleCalls |-> 0,
   \* the values addSample() was given that are numbers other than 0, since
   \* the calibrator was constructed or reset; the last argument and return
   added |-> <<>>, argument |-> Null, accepted |-> FALSE,
   before |-> [samples |-> <<>>, calibratedFocal |-> Null,
               lastCalibrationTime |-> 0],
   result |-> Null,
   \* the processFrame call in progress or last finished: the callbacks that
   \* ran, its _processTrackingData calls, poseFilter.filter calls and
   \* currentTransform writes, whether a transform was written from landmarks
   \* of an earlier frame, what it returned
   frame |-> NewFrameObs,
   \* the right-eye landmark of the last frame that showed a face
   steadyEye |-> MissingPoint]

\* profileMgr.save(deviceId, focalLength, width, height)
SaveProfile ==
  /\ calibObs.saves < MaxSaves
  /\ \E deviceId \in ProfileDevices, focalLength \in ProfileFocals,
        size \in FrameSizes :
       \E mgr \in {save(profileMgr, deviceId, focalLength, size.width,
                        size.height, date)} :
         /\ profileMgr' = mgr
         /\ storage' = mgr.profiles
         /\ calibObs' =
              LET key == generateProfileKey(deviceId, size.width, size.height)
              IN [calibObs EXCEPT
                    !.saves = @ + 1, !.lastOp = "save", !.key = key,
                    !.returned = NoProfile,
                    !.saved = [k \in DOMAIN @ \cup {key} |->
                                 IF k = key
                                 THEN [focalLength |-> focalLength, day |-> date]
                                 ELSE @[k]]]
  /\ UNCHANGED <<date, calibrator, proTracker, now, monitorVars, stabVars,
                 trackerVars, solverVars>>

\* profileMgr.load(deviceId, width, height)
LoadProfile ==
  /\ calibObs.loads < MaxLoads
  /\ \E deviceId \in ProfileDevices, size \in FrameSizes :
       \E loaded \in {load(profileMgr, deviceId, size.width, size.height, date)} :
         /\ profileMgr' = loaded.mgr
         /\ storage' = IF loaded.mgr = profileMgr THEN storage
                       ELSE loaded.mgr.profiles
         /\ calibObs' =
              [calibObs EXCEPT
                 !.loads = @ + 1, !.lastOp = "load",
                 !.key = generateProfileKey(deviceId, size.width, size.height),
                 !.returned = loaded.profile]
  /\ UNCHANGED <<date, calibrator, proTracker, now, monitorVars, stabVars,
                 trackerVars, solverVars>>

\* Days pass.
AdvanceDate ==
  /\ \E days \in DaySteps :
       /\ date + days <= MaxDate
       /\ date' = date + days
  /\ calibObs' = [calibObs EXCEPT !.lastOp = "advanceDate"]
  /\ UNCHANGED <<storage, calibrator, profileMgr, proTracker, now, monitorVars,
                 stabVars, trackerVars, solverVars>>

\* new ProfessionalFaceTracker(...) and its initialize(): a new calibrator, a
\* manager over what localStorage holds, a new device id, _loadCameraProfile()
Startup ==
  /\ calibObs.startups < MaxStartups
  /\ \E started \in {loadCameraProfile(NewProTracker(calibObs.startups + 1),
                                       NewProfileMgr(storage), date)} :
       /\ proTracker' = started.tr
       /\ profileMgr' = started.mgr
       /\ storage' = IF started.mgr.profiles = storage THEN storage
                     ELSE started.mgr.profiles
       /\ calibrator' = [samples |-> <<>>, calibratedFocal |-> Null,
                         lastCalibrationTime |-> 0]
       /\ calibObs' = [calibObs EXCEPT
                         !.startups = @ + 1, !.lastOp = "startup",
                         !.added = <<>>,
                         !.key = generateProfileKey(started.tr.deviceId,
                                                    VideoSize.width,
                                                    VideoSize.height),
                         !.returned = NoProfile,
                         !.before = calibrator, !.result = Null]
  /\ UNCHANGED <<date, now, monitorVars, stabVars, trackerVars, solverVars>>

(***************************************************************************)
(* CameraCalibrator: the sample buffer and the calibrated focal length.    *)
(* Focal lengths in pixels, rounded down; weights in thousandths.          *)
(***************************************************************************)
MaxSampleCalls == 8     \* addSample() calls
MaxSampleRun == 17      \* addSample() calls in SpecSamples

minSamples == 8
maxSamples == 15

\* new CameraCalibrator()
NewCameraCalibrator ==
  [samples |-> <<>>, calibratedFocal |-> Null, lastCalibrationTime |-> 0]

\* !focalLength: null, 0 and NaN
Falsy(x) == ~Truthy(x) \/ x = NaN

addSample_NoEviction(cal, focalLength, clock) ==
  IF Falsy(focalLength) THEN cal
  ELSE [cal EXCEPT !.samples = Append(@, [value |-> focalLength,
                                          timestamp |-> clock])]

addSample_SetsCalibratedFocal(cal, focalLength, clock) ==
  IF Falsy(focalLength) THEN cal
  ELSE [cal EXCEPT !.samples = Append(@, [value |-> focalLength,
                                          timestamp |-> clock]),
                   !.calibratedFocal = focalLength]

\* addSample(focalLength) at performance.now() = clock: the calibrator afterwards
addSample(cal, focalLength, clock) ==
  IF Falsy(focalLength) THEN cal
  ELSE LET pushed == Append(cal.samples, [value |-> focalLength,
                                          timestamp |-> clock])
       IN [cal EXCEPT !.samples = IF Len(pushed) > maxSamples
                                  THEN Tail(pushed) ELSE pushed]

\* Math.exp(-age / 5000) at whole seconds
ExpDecay(age) ==
  LET table == <<1000, 819, 670, 549, 449, 368, 301, 247, 202, 165, 135, 111,
                 91, 74, 61, 50, 41, 33, 27, 22, 18>>
  IN IF age \div 1000 < Len(table) THEN table[age \div 1000 + 1] ELSE 0

\* _calculateSampleVariance()
calculateSampleVariance(samples) ==
  LET SumValues[i \in 0..Len(samples)] ==
        IF i = 0 THEN 0 ELSE SumValues[i - 1] + samples[i].value
      mean == SumValues[Len(samples)] \div Len(samples)
      SumSquares[i \in 0..Len(samples)] ==
        IF i = 0 THEN 0
        ELSE SumSquares[i - 1] + (samples[i].value - mean) * (samples[i].value - mean)
  IN IF Len(samples) < 2 THEN 0 ELSE SumSquares[Len(samples)] \div Len(samples)

\* The weighted average of getCalibratedFocalLength() at performance.now() = clock
WeightedAverage(samples, clock) ==
  LET weightedSum[i \in 0..Len(samples)] ==
        IF i = 0 THEN 0
        ELSE weightedSum[i - 1]
               + samples[i].value * ExpDecay(clock - samples[i].timestamp)
      totalWeight[i \in 0..Len(samples)] ==
        IF i = 0 THEN 0
        ELSE totalWeight[i - 1] + ExpDecay(clock - samples[i].timestamp)
  IN weightedSum[Len(samples)] \div totalWeight[Len(samples)]

getCalibratedFocalLength_KeepsOnHighVariance(cal, clock) ==
  LET calibratedFocal == WeightedAverage(cal.samples, clock)
  IN IF Len(cal.samples) < minSamples THEN [cal |-> cal, returned |-> Null]
     ELSE IF calibratedFocal < 500 \/ calibratedFocal > 3000
     THEN [cal |-> cal, returned |-> Null]
     ELSE IF calculateSampleVariance(cal.samples) > 10000
     THEN [cal |-> [cal EXCEPT !.calibratedFocal = calibratedFocal,
                               !.lastCalibrationTime = clock],
           returned |-> Null]
     ELSE [cal |-> [cal EXCEPT !.calibratedFocal = calibratedFocal,
                               !.lastCalibrationTime = clock],
           returned |-> calibratedFocal]

\* getCalibratedFocalLength() at performance.now() = clock: the calibrator
\* afterwards and what is returned
getCalibratedFocalLength(cal, clock) ==
  LET calibratedFocal == WeightedAverage(cal.samples, clock)
  IN IF Len(cal.samples) < minSamples THEN [cal |-> cal, returned |-> Null]
     ELSE IF calibratedFocal < 500 \/ calibratedFocal > 3000
     THEN [cal |-> cal, returned |-> Null]
     ELSE IF calculateSampleVariance(cal.samples) > 10000
     THEN [cal |-> cal, returned |-> Null]
     ELSE [cal |-> [cal EXCEPT !.calibratedFocal = calibratedFocal,
                               !.lastCalibrationTime = clock],
           returned |-> calibratedFocal]

\* Per-frame focal length estimates given to the calibrator, one a second.
SampleValues == {1000, 1300, 4000}
SamplePeriod == 1000

\* calibrator.addSample(focalLength)
AddSampleOf(focalLength) ==
  /\ now' = now + SamplePeriod
  /\ calibrator' = addSample(calibrator, focalLength, now + SamplePeriod)
  /\ calibObs' = [calibObs EXCEPT
                    !.sampleCalls = @ + 1, !.lastOp = "addSample",
                    !.before = calibrator, !.result = Null,
                    !.added = IF Falsy(focalLength) THEN @
                              ELSE Append(@, focalLength),
                    !.argument = focalLength,
                    \* return false on a falsy argument, true after the push
                    !.accepted = ~Falsy(focalLength)]
  /\ UNCHANGED <<date, storage, profileMgr, proTracker, monitorVars, stabVars,
                 trackerVars, solverVars>>

AddSample ==
  /\ calibObs.sampleCalls < MaxSampleCalls
  /\ \E focalLength \in SampleValues : AddSampleOf(focalLength)

\* calibrator.addSample(focalLength) over a long run: a new value with every
\* call, or null, 0 or NaN (never twice in a row)
AddSampleRun ==
  /\ calibObs.sampleCalls < MaxSampleRun
  /\ \E focalLength \in {Null, 0, NaN, 1000 + calibObs.sampleCalls} :
       /\ Falsy(focalLength) => ~Falsy(calibObs.argument) \/ calibObs.sampleCalls = 0
       /\ AddSampleOf(focalLength)

\* calibrator.getCalibratedFocalLength()
GetCalibratedFocalLength ==
  /\ \E res \in {getCalibratedFocalLength(calibrator, now)} :
       /\ calibrator' = res.cal
       /\ calibObs' = [calibObs EXCEPT !.lastOp = "getCalibratedFocalLength",
                                       !.before = calibrator,
                                       !.result = res.returned]
  /\ UNCHANGED <<now, date, storage, profileMgr, proTracker, monitorVars,
                 stabVars, trackerVars, solverVars>>

\* calibrator.reset(), of a calibrator that has been used
CalibratorReset ==
  /\ calibrator # NewCameraCalibrator
  /\ calibrator' = NewCameraCalibrator
  /\ calibObs' = [calibObs EXCEPT !.lastOp = "reset", !.added = <<>>,
                                  !.before = calibrator, !.result = Null]
  /\ UNCHANGED <<now, date, storage, profileMgr, proTracker, monitorVars,
                 stabVars, trackerVars, solverVars>>

\* _processTrackingData(landmarks, ...): _attemptCalibration(landmarks) while
\* CALIBRATING.  The estimate is in tenths of a pixel.
AttemptCalibration ==
  /\ \E hasLandmarks \in BOOLEAN, leftEye \in {Point(400, 500)},
        rightEye \in {MissingPoint, Point(600, 500)} :
       /\ LET focalEstimate == estimateFocalLength(hasLandmarks, leftEye, rightEye,
                                                   VideoSize.width)
              sampled == focalEstimate # NaN /\ Truthy(focalEstimate)
                         /\ proTracker.calibrationState = "CALIBRATING"
              added == IF sampled
                       THEN addSample(calibrator, focalEstimate \div 10, now)
                       ELSE calibrator
              res == IF sampled THEN getCalibratedFocalLength(added, now)
                     ELSE [cal |-> calibrator, returned |-> Null]
              calibrated == res.returned
              saved == IF Truthy(calibrated)
                       THEN save(profileMgr, proTracker.deviceId, calibrated,
                                 VideoSize.width, VideoSize.height, date)
                       ELSE profileMgr
          IN /\ calibrator' = res.cal
             /\ profileMgr' = saved
             /\ storage' = IF Truthy(calibrated) THEN saved.profiles ELSE storage
             /\ proTracker' =
                  IF Truthy(calibrated)
                  THEN [proTracker EXCEPT
                          !.cameraIntrinsics =
                            [focalLength |-> calibrated,
                             cx |-> VideoSize.width \div 2,
                             cy |-> VideoSize.height \div 2,
                             width |-> VideoSize.width,
                             height |-> VideoSize.height],
                          !.calibrationState = "CALIBRATED",
                          !.estimatorIntrinsics =
                            [focalLength |-> calibrated,
                             cx |-> VideoSize.width \div 2,
                             cy |-> VideoSize.height \div 2,
                             width |-> VideoSize.width,
                             height |-> VideoSize.height]]
                  ELSE proTracker
             /\ calibObs' = [calibObs EXCEPT !.lastOp = "attemptCalibration",
                                             !.added = IF sampled
                                                       THEN Append(@, focalEstimate \div 10)
                                                       ELSE @,
                                             !.before = calibrator,
                                             !.result = calibrated]
  /\ UNCHANGED <<now, date, monitorVars, stabVars, trackerVars, solverVars>>

\* The handlers below work on the tracker with its calibrator and profile
\* manager: s = [tr, cal, mgr, frame, clock], frame being the observer.

\* _handleTrackingLoss()
handleTrackingLoss(s) ==
  [s EXCEPT !.tr.trackingState = "LOST",
            !.tr.poseFilter = IF s.tr.trackingState # "LOST" THEN 0 ELSE @,
            !.tr.currentTransform = NoTransform]

\* _attemptCalibration(landmarks) on the given day
attemptCalibration(s, landmarks, today) ==
  LET focalEstimate == estimateFocalLength(TRUE, landmarks.leftEye,
                                           landmarks.rightEye, VideoSize.width)
      sampled == focalEstimate # NaN /\ Truthy(focalEstimate)
      clock == s.clock + 1
      added == addSample(s.cal, focalEstimate \div 10, clock)
      res == getCalibratedFocalLength(added, clock)
      calibrated == res.returned
      intrinsics == [focalLength |-> calibrated,
                     cx |-> VideoSize.width \div 2,
                     cy |-> VideoSize.height \div 2,
                     width |-> VideoSize.width, height |-> VideoSize.height]
  IN IF ~sampled THEN s
     ELSE IF ~Truthy(calibrated) THEN [s EXCEPT !.cal = res.cal, !.clock = clock]
     ELSE [s EXCEPT !.cal = res.cal, !.clock = clock,
                    !.mgr = save(s.mgr, s.tr.deviceId, calibrated,
                                 VideoSize.width, VideoSize.height, today),
                    !.tr.cameraIntrinsics = intrinsics,
                    !.tr.calibrationState = "CALIBRATED",
                    !.tr.estimatorIntrinsics = intrinsics]

\* _estimateHeadPose(landmarks): whether HeadPoseEstimator.estimate returns a
\* pose; solved is what cv.solvePnP reports
estimateHeadPose(tr, solved) == tr.estimatorIntrinsics # NoIntrinsics /\ solved

\* _processStandardTracking(landmarks, poseLandmarks)
processStandardTracking(s, landmarks, poseLandmarks, solved) ==
  IF ~estimateHeadPose(s.tr, solved) THEN handleTrackingLoss(s)
  ELSE LET filtered == [s EXCEPT !.tr.poseFilter = Min(@ + 1, MaxFilterSteps),
                                 !.frame.filtered = @ + 1]
       IN IF ~landmarks.anatomy THEN handleTrackingLoss(filtered)
          ELSE [filtered EXCEPT
                  !.tr.currentTransform =
                     [present |-> TRUE, fromFresh |-> landmarks.fresh,
                      hasEarDetection |-> poseLandmarks,
                      calibrationState |-> s.tr.calibrationState,
                      frameCount |-> s.tr.frameCount],
                  !.tr.trackingState = "TRACKING",
                  !.frame.written = @ + 1,
                  !.frame.fromEarlier = @ \/ ~landmarks.fresh]

\* _processTrackingData(landmarks, poseLandmarks)
processTrackingData(s, landmarks, poseLandmarks, solved, today) ==
  LET counted == [s EXCEPT !.frame.processed = @ + 1]
  IN processStandardTracking(
       IF s.tr.calibrationState = "CALIBRATING"
       THEN attemptCalibration(counted, landmarks, today) ELSE counted,
       landmarks, poseLandmarks, solved)

\* _onFaceMeshResults(results)
onFaceMeshResults(s, face, solved, today) ==
  IF ~face.present \/ ~face.valid THEN handleTrackingLoss(s)
  ELSE LET stored == [s EXCEPT !.tr.currentFaceLandmarks = face]
       IN IF ~s.tr.hasHolistic \/ ~s.tr.currentPoseLandmarks
          THEN processTrackingData(stored, face, FALSE, solved, today)
          ELSE stored

\* _onHolisticResults(results)
onHolisticResults(s, poseLandmarks, solved, today) ==
  IF ~poseLandmarks THEN [s EXCEPT !.tr.currentPoseLandmarks = FALSE]
  ELSE LET stored == [s EXCEPT !.tr.currentPoseLandmarks = TRUE]
       IN IF s.tr.currentFaceLandmarks.present
          THEN processTrackingData(stored, s.tr.currentFaceLandmarks, TRUE,
                                   solved, today)
          ELSE stored

\* the tracker with its calibrator and manager, as the handlers take it
TrackerSystem ==
  [tr |-> proTracker, cal |-> calibrator, mgr |-> profileMgr,
   frame |-> calibObs.frame, clock |-> now]

\* the variables after a handler
Becomes(s, op) ==
  /\ proTracker' = s.tr
  /\ calibrator' = s.cal
  /\ profileMgr' = s.mgr
  /\ storage' = IF s.mgr = profileMgr THEN storage ELSE s.mgr.profiles
  /\ now' = s.clock
  /\ calibObs' = [calibObs EXCEPT
                    !.lastOp = op, !.frame = s.frame,
                    !.steadyEye = IF op = "send" /\ s.tr.sent.face.present
                                  THEN s.tr.sent.face.rightEye ELSE @]
  /\ UNCHANGED <<date, monitorVars, stabVars, trackerVars, solverVars>>

MaxFrameCount == 3  \* frameCount is counted up to here

\* what FaceMesh can report for a frame
Faces ==
  {NoFace} \cup {Face(valid, anatomy, Point(600, 500)) :
                   valid \in BOOLEAN, anatomy \in BOOLEAN}

\* processFrame(timestamp) up to the two send() calls, FaceMesh and Holistic
\* going to report face and poseLandmarks
BeginFrameOf(face, poseLandmarks) ==
  /\ ~proTracker.inFrame
  /\ Becomes([TrackerSystem EXCEPT
                !.tr.inFrame = TRUE,
                !.tr.sent = [face |-> face, poseLandmarks |-> poseLandmarks],
                !.tr.pending = IF proTracker.hasHolistic
                               THEN {"faceMesh", "holistic"}
                               ELSE {"faceMesh"},
                \* the landmarks kept from the frame before are no longer
                \* those of the frame in progress
                !.tr.currentFaceLandmarks.fresh = FALSE,
                !.frame = [NewFrameObs EXCEPT !.face = face,
                                              !.poseLandmarks = poseLandmarks]],
             "send")

BeginFrame ==
  /\ \E face \in Faces, poseLandmarks \in BOOLEAN :
       BeginFrameOf(face, poseLandmarks)

\* FaceMesh calls back with its results
OnFaceMeshResults ==
  /\ "faceMesh" \in proTracker.pending
  /\ \E solved \in BOOLEAN :
       \E s \in {onFaceMeshResults(TrackerSystem, proTracker.sent.face,
                                    solved, date)} :
         Becomes([s EXCEPT !.tr.pending = @ \ {"faceMesh"},
                           !.frame.order = Append(@, "faceMesh")],
                 "onFaceMeshResults")

\* Holistic calls back with its results
OnHolisticResults ==
  /\ "holistic" \in proTracker.pending
  /\ \E solved \in BOOLEAN :
       \E s \in {onHolisticResults(TrackerSystem,
                                    proTracker.sent.poseLandmarks,
                                    solved, date)} :
         Becomes([s EXCEPT !.tr.pending = @ \ {"holistic"},
                           !.frame.order = Append(@, "holistic")],
                 "onHolisticResults")

\* processFrame after Promise.all: frameCount++, return currentTransform
EndFrame ==
  /\ proTracker.inFrame
  /\ proTracker.pending = {}
  /\ Becomes([TrackerSystem EXCEPT
                !.tr.inFrame = FALSE,
                !.tr.frameCount = Min(@ + 1, MaxFrameCount),
                !.frame.returned = proTracker.currentTransform],
             "processFrame")

\* Right-eye landmarks 32, 64, 128 and 192 pixels from the left eye in the
\* 640 pixel image: distances inside [20, 200]
SteadyEyes == {Point(450, 500), Point(500, 500), Point(600, 500), Point(700, 500)}

\* processFrame on a frame in which FaceMesh reports a valid face with both
\* eyes where every frame so far had them
BeginSteadyFrame ==
  /\ ~proTracker.inFrame
  /\ \E rightEye \in SteadyEyes, poseLandmarks \in BOOLEAN :
       /\ calibObs.steadyEye \in {MissingPoint, rightEye}
       /\ BeginFrameOf(Face(TRUE, TRUE, rightEye), poseLandmarks)

\* poseEstimator.setCameraIntrinsics(intrinsics), as _attemptCalibration
\* calls it after a calibration, called by the host on tracker.poseEstimator
SetEstimatorIntrinsics ==
  /\ ~proTracker.inFrame
  /\ proTracker.estimatorIntrinsics = NoIntrinsics
  /\ \E focalLength \in ProfileFocals :
       Becomes([TrackerSystem EXCEPT
                  !.tr.estimatorIntrinsics =
                     [focalLength |-> focalLength,
                      cx |-> VideoSize.width \div 2,
                      cy |-> VideoSize.height \div 2,
                      width |-> VideoSize.width, height |-> VideoSize.height]],
               "setCameraIntrinsics")

CalibrationInit ==
  /\ date = 0
  /\ storage = [k \in {} |-> NoProfile]
  /\ calibrator = NewCameraCalibrator
  /\ \E started \in {loadCameraProfile(NewProTracker(1),
                                       NewProfileMgr([k \in {} |-> NoProfile]), 0)} :
       /\ profileMgr = started.mgr
       /\ proTracker = started.tr
  /\ calibObs = NewCalibObs

(***************************************************************************)
(* Specifications                                                          *)
(***************************************************************************)
Init ==
  /\ MonitorInit /\ StabInit /\ TrackerInit /\ EstimatorInit /\ CalibratorInit
  /\ RansacInit /\ CalibrationInit

\* Any frames, a few updates: the state bands and the recommended strategy.
NextMonitor == MonitorUpdate \/ Reset

SpecMonitor == Init /\ [][NextMonitor]_vars

\* The loss scenario: frames with and without landmarks at the frame rate.
NextLoss == LossUpdate

SpecLoss == Init /\ [][NextLoss]_vars

\* Recovery: long losses, the caller's reports, resets.
NextRecovery == RecoveryUpdate \/ ReportRecovery \/ Reset

SpecRecovery == Init /\ [][NextRecovery]_vars

\* Quality and trends over a run of frames with in-range fields.
NextQuality == QualityUpdate \/ Reset

SpecQuality == Init /\ [][NextQuality]_vars

\* Long runs: the histories fill and roll.
NextHistory == HistoryUpdate \/ Reset

SpecHistory == Init /\ [][NextHistory]_vars

\* The two stabilizers: updates with any pose and timestamp, resets.
NextStabilizer == StabUpdate \/ StabReset \/ PoseStabUpdate

SpecStabilizer == Init /\ [][NextStabilizer]_vars

\* Poses of changing confidence.
NextConfidence == ConfidenceUpdate

SpecConfidence == Init /\ [][NextConfidence]_vars

\* A stabilizer at rest: a constant pose for 30 updates.
NextRest == RestUpdate

SpecRest == Init /\ [][NextRest]_vars

\* The tracker's frame pipeline, with calls from callbacks.
NextTracker ==
  \/ ProcessFrame \/ Reenter \/ Detect \/ FinishNoDetection \/ Estimate
  \/ Stabilize \/ MonitorStep \/ Publish \/ Return \/ Throw

SpecTracker == Init /\ [][NextTracker]_vars

\* The frame pipeline alone, over runs in which the subject leaves and returns.
NextReappear ==
  \/ ProcessReadyFrame \/ Detect \/ FinishNoDetection \/ Estimate
  \/ Stabilize \/ MonitorStep \/ Publish \/ Return \/ Throw

SpecReappear == Init /\ [][NextReappear]_vars

\* The pose estimator's public methods.
NextEstimator == SetCameraIntrinsics \/ EstimatePose

SpecEstimator == Init /\ [][NextEstimator]_vars

\* The solver stages under the options the estimator is constructed with.
NextSolver == NewEstimator \/ Solve

SpecSolver == Init /\ [][NextSolver]_vars

\* Outlier rejection under the camera intrinsics callers set.
NextRansac == SetCameraIntrinsics \/ FindInliers

SpecRansac == Init /\ [][NextRansac]_vars

\* Frames of the ProfessionalFaceTracker, FaceMesh and Holistic calling back
\* in either order.
NextFrames ==
  BeginFrame \/ OnFaceMeshResults \/ OnHolisticResults \/ EndFrame
  \/ SetEstimatorIntrinsics

SpecFrames == Init /\ [][NextFrames]_vars

\* Runtime calibration: every frame shows the eyes at the same distance.  The
\* host asks for frame after frame and both detectors answer each.
NextSteady ==
  BeginSteadyFrame \/ OnFaceMeshResults \/ OnHolisticResults \/ EndFrame

SpecSteady ==
  /\ Init /\ [][NextSteady]_vars
  /\ WF_vars(BeginSteadyFrame) /\ WF_vars(OnFaceMeshResults)
  /\ WF_vars(OnHolisticResults) /\ WF_vars(EndFrame)

\* The profile store over the days, and trackers started from it.
NextProfiles == SaveProfile \/ LoadProfile \/ AdvanceDate \/ Startup

SpecProfiles == Init /\ [][NextProfiles]_vars

\* Runtime calibration: samples, averages, resets, the tracker's attempts.
NextCalibration ==
  AddSample \/ GetCalibratedFocalLength \/ CalibratorReset \/ AttemptCalibration

SpecCalibration == Init /\ [][NextCalibration]_vars

\* The sample buffer over a long run of addSample() calls.
NextSamples == AddSampleRun \/ CalibratorReset

SpecSamples == Init /\ [][NextSamples]_vars

\* The calibrator's focal length estimate, on any landmarks.
NextCalibrator == EstimateFocalLength

SpecCalibrator == Init /\ [][NextCalibrator]_vars

(***************************************************************************)
(* Claims about the quality monitor                                        *)
(***************************************************************************)

\* C1: once a frame has ended in tracking_good, 10 consecutive frames without
\* landmarks bring the state to lost within those frames, and onTrackingLost
\* has fired exactly once in them; at no point of the run has it fired twice.
C1_LostOnceInNullRun ==
  /\ (obs.runActive /\ obs.runNulls >= 1) => obs.runLost <= 1
  /\ (obs.runActive /\ obs.runNulls >= NullFrames) =>
        (obs.runReachedLost /\ obs.runLost = 1)

C1_Witness ==
  /\ obs.runActive /\ obs.runNulls = NullFrames
  /\ monitor.state = "lost" /\ obs.runLost = 1

\* The band of a quality q, written from the thresholds.
InBand(q, st) ==
  \/ q >= excellentThreshold /\ st = "tracking_excellent"
  \/ q >= goodThreshold /\ q < excellentThreshold /\ st = "tracking_good"
  \/ q >= acceptableThreshold /\ q < goodThreshold /\ st = "tracking_acceptable"
  \/ q >= poorThreshold /\ q < acceptableThreshold /\ st = "tracking_poor"
  \/ q < poorThreshold /\ st \in {"recovering", "lost"}

\* C2: after every update the state is the highest band the overall quality
\* reaches, each boundary belonging to the higher state; below the poor
\* threshold the state is recovering or lost.
C2_StateIsBand ==
  obs.lastOp = "update" =>
    /\ InBand(monitor.overallQuality, monitor.state)
    /\ InBand(assessment.quality, assessment.state)

\* an update that left the quality at exactly 0.75
C2_Witness ==
  /\ obs.lastOp = "update"
  /\ monitor.overallQuality = goodThreshold
  /\ monitor.state = "tracking_good"

\* C8 as amended: onRecoveryAttempt fires only on an update that ends in lost,
\* after at least recoveryDelay in lost, with fewer than maxRecoveryAttempts
\* made in the episode; recoveryAttempts never exceeds maxRecoveryAttempts;
\* and two attempts with no reset() between them are at least
\* recoveryCooldown apart.
C8_GatedRecovery ==
  /\ monitor.recoveryAttempts <= maxRecoveryAttempts
  /\ obs.episodeAttempts <= maxRecoveryAttempts
  /\ fired.onRecoveryAttempt =>
        /\ obs.lastOp = "update"
        /\ monitor.state = "lost"
        /\ obs.lostSince # Null /\ now - obs.lostSince >= recoveryDelay
        /\ obs.attemptsBefore < maxRecoveryAttempts
  /\ obs.gapSinceReset # Null => obs.gapSinceReset >= recoveryCooldown

\* the third attempt of one loss episode
C8_Witness ==
  /\ fired.onRecoveryAttempt /\ fired.attempt = maxRecoveryAttempts
  /\ obs.gapSinceReset # Null

\* C8 as stated: the same, with any two consecutive attempts at least
\* recoveryCooldown apart.
C8_Original ==
  /\ monitor.recoveryAttempts <= maxRecoveryAttempts
  /\ fired.onRecoveryAttempt =>
        /\ monitor.state = "lost"
        /\ obs.lostSince # Null /\ now - obs.lostSince >= recoveryDelay
        /\ obs.attemptsBefore < maxRecoveryAttempts
  /\ obs.gap # Null => obs.gap >= recoveryCooldown

\* Which metrics the assessment's monitor holds below their thresholds.
Below(name) == monitor.metrics[name].current < MetricThreshold[name]

\* C9: in an assessment the strategy is none unless the state is lost; when it
\* is lost, landmarkConfidence and faceVisibility both below their thresholds
\* give reduce_quality, and poseStability below its threshold without that
\* pair gives reset_filters.
C9_StrategyFromMetrics ==
  obs.lastOp = "update" =>
    /\ assessment.state # "lost" => assessment.recommendedStrategy = "none"
    /\ (assessment.state = "lost" /\ Below("landmarkConfidence")
          /\ Below("faceVisibility"))
         => assessment.recommendedStrategy = "reduce_quality"
    /\ (assessment.state = "lost" /\ Below("poseStability")
          /\ ~(Below("landmarkConfidence") /\ Below("faceVisibility")))
         => assessment.recommendedStrategy = "reset_filters"

\* lost with poseStability failing and faceVisibility not
C9_Witness ==
  /\ obs.lastOp = "update" /\ assessment.isLost
  /\ Below("poseStability") /\ ~Below("faceVisibility")
  /\ assessment.recommendedStrategy = "reset_filters"

\* C10: while the monitor is lost and 2 or more attempts have been made in the
\* episode, the strategy it recommends, and passes to onRecoveryAttempt, is
\* full_reset.
C10_FullResetWhenPersistent ==
  (obs.lastOp = "update" /\ monitor.state = "lost" /\ obs.attemptsBefore >= 2) =>
    /\ assessment.recommendedStrategy = "full_reset"
    /\ fired.onRecoveryAttempt => fired.strategy = "full_reset"

(***************************************************************************)
(* Claims about the stabilizers                                            *)
(***************************************************************************)

\* C3: the first update() on a fresh ProductionStabilizer, and the first after
\* reset(), returns the input's position, rotation and (when the input has
\* one) scale, whatever the timestamp; the first update() of a PoseStabilizer
\* leaves exactly the target position, rotation and scale in the fields its
\* caller reads.
C3_FirstUpdateReturnsInput ==
  /\ (stabObs.lastOp = "update" /\ stabObs.first) =>
       /\ result.position = stabObs.input.position
       /\ result.angle = stabObs.input.angle
       /\ stabObs.input.hasScale => result.scale = stabObs.input.scale
  /\ (stabObs.lastOp = "poseUpdate" /\ stabObs.poseFirst) =>
       /\ poseStabilizer.position = stabObs.input.position
       /\ poseStabilizer.angle = stabObs.input.angle
       /\ poseStabilizer.scale = stabObs.input.scale

\* the first update() after a reset() that followed filtered updates, with a
\* scale in the input
C3_Witness ==
  /\ stabObs.lastOp = "update" /\ stabObs.first
  /\ stabObs.resets = 1 /\ stabObs.updates = MaxStabUpdates
  /\ stabObs.input.hasScale
  /\ result.scale = stabObs.input.scale

(***************************************************************************)
(* Claims about the tracker's frame pipeline                               *)
(***************************************************************************)

\* C4: WorldClassFaceTracker has at most one frame in flight.  A call to
\* processFrame made while a frame is being processed does not get past the
\* isProcessing guard: it returns the cached currentTrackingData and invokes
\* none of detector, solver, stabilizer and monitor.  isProcessing is true
\* exactly while an activation is in flight, so it is false after every exit
\* (normal completion, no detection, exception).
C4_OneFrameInFlight ==
  /\ Len(calls) <= 1
  /\ trackerObs.nestedInvocations = 0
  /\ trackerObs.reentered => ~trackerObs.reentryPassed
  /\ trackerObs.lastOp = "guarded" =>
       trackerObs.reentryReturn = tracker.currentTrackingData
  /\ tracker.isProcessing <=> calls # <<>>
  /\ trackerObs.lastOp = "exit" => ~tracker.isProcessing

\* a callback has called processFrame during a frame that published data, and
\* activations have ended in each of the three ways
C4_Witness ==
  /\ trackerObs.reentered
  /\ trackerObs.reentryReturn.present
  /\ trackerObs.exits = {"normal", "noDetection", "exception"}
  /\ calls = <<>>

(***************************************************************************)
(* Claims about the pose estimator and the calibrator                      *)
(***************************************************************************)

\* the mapped landmarks of the last estimate()'s input that are in the array
\* with finite coordinates
ValidMappedPoints ==
  Cardinality({i \in 1..Len(landmarkIndices) :
                 /\ landmarkIndices[i] < poseResult.landmarks.length
                 /\ landmarkIndices[i] \notin poseResult.landmarks.notFinite})

\* C5: AdvancedPoseEstimator.estimate returns a pose only when at least 6
\* valid correspondences were built from the landmarks; with fewer than 6
\* valid mapped points (so with fewer than 4 too) it returns null.
C5_PoseNeedsSixCorrespondences ==
  poseResult.lastOp = "estimate" =>
    /\ poseResult.result.present =>
         /\ Len(poseResult.correspondences) >= 6
         /\ Len(poseResult.correspondences) = ValidMappedPoints
    /\ ValidMappedPoints < 6 => ~poseResult.result.present
    /\ ValidMappedPoints < 4 => ~poseResult.result.present

\* a pose from exactly 6 valid points, after a frame with 4 or 5 gave none
C5_Witness ==
  /\ poseResult.lastOp = "estimate"
  /\ poseResult.result.present
  /\ ValidMappedPoints = 6
  /\ poseResult.previousCount \in {4, 5}
  /\ ~poseResult.previousPresent

\* the eye pixel distance of the last estimateFocalLength(), for finite
\* coordinates
EyePixelDistance ==
  Hypot(((focal.rightEye.x - focal.leftEye.x) * focal.imageWidth) \div 1000,
        ((focal.rightEye.y - focal.leftEye.y) * focal.imageWidth) \div 1000)

\* C6: CameraCalibrator.estimateFocalLength returns null when an eye landmark
\* is missing, when the eye pixel distance is outside [20, 200] and when the
\* candidate is outside [500, 3000]; every value it returns that is not null
\* lies in [500, 3000].
C6_NullOrInRange ==
  focal.calls > 0 =>
    /\ (~focal.leftEye.present \/ ~focal.rightEye.present) =>
         focal.result = Null
    /\ ( /\ focal.leftEye.present /\ focal.rightEye.present
         /\ NaN \notin {focal.leftEye.x, focal.leftEye.y,
                        focal.rightEye.x, focal.rightEye.y}
         /\ (EyePixelDistance < 20 \/ EyePixelDistance > 200) ) =>
         focal.result = Null
    /\ focal.result # Null =>
         focal.result >= 5000 /\ focal.result <= 30000

\* C7: the focal length of the camera intrinsics the pose solver reads is
\* always within [500, 3000] pixels.
C7_FocalLengthInRange ==
  /\ poseEstimator.camera.focalLength >= 500
  /\ poseEstimator.camera.focalLength <= 3000

\* C11: given at least 6 mutually consistent clean points and one point
\* displaced far from its true projection, the positions findInliers returns
\* do not include the displaced point.
C11_OutlierExcluded ==
  (ransac.calls > 0 /\ Cardinality(ransac.clean) >= 6) =>
    ransac.outlier \notin ransac.result

(***************************************************************************)
(* Claims about the stabilizer's filters                                   *)
(***************************************************************************)

\* C12: after the same pose was fed to a new ProductionStabilizer for its
\* first 30 updates, the output position, rotation and scale are within a
\* small epsilon (0.05) of the input.
C12_ConvergesAtRest ==
  (stabObs.lastOp = "rest" /\ stabObs.updates = RestUpdates) =>
    /\ \A a \in Axes : Abs(result.position[a] - stabObs.input.position[a]) <= 50
    /\ Abs(result.angle - stabObs.input.angle) <= 50
    /\ stabObs.input.hasScale =>
         \A a \in Axes : Abs(result.scale[a] - stabObs.input.scale[a]) <= 50

\* C13: after reset(), every update() returns what a freshly constructed
\* stabilizer returns for the same updates.
C13_ResetIsFresh ==
  (stabObs.resets > 0 /\ stabObs.lastOp = "update") =>
    result = stabObs.freshResult

\* C14: a frame for which the pose solver returns no estimate does not change
\* the stabilizer's position, rotation or scale: the tracker's stabilization
\* step leaves them as they were.
C14_NoEstimateKeepsPose ==
  [][(calls # <<>> /\ Top.pc = "stabilize" /\ ~Top.estimate.present) =>
       /\ stabilizer'.position = stabilizer.position
       /\ stabilizer'.angle = stabilizer.angle
       /\ stabilizer'.scale = stabilizer.scale]_vars

\* C15: a load() returns the profile last saved under its key, with the saved
\* focal length, while that save is at most 30 days old; it returns null for a
\* key never saved and for a save older than 30 days, and the expired profile
\* is then gone from the manager and from localStorage.
C15_ProfileRoundTripAndExpiry ==
  calibObs.lastOp = "load" =>
    IF calibObs.key \notin DOMAIN calibObs.saved
    THEN calibObs.returned = NoProfile
    ELSE IF date - calibObs.saved[calibObs.key].day <= 30
    THEN /\ calibObs.returned.present
         /\ calibObs.returned.focalLength
              = calibObs.saved[calibObs.key].focalLength
    ELSE /\ calibObs.returned = NoProfile
         /\ calibObs.key \notin DOMAIN profileMgr.profiles
         /\ calibObs.key \notin DOMAIN storage

C15_Witness ==
  /\ calibObs.lastOp = "load"
  /\ calibObs.key \in DOMAIN calibObs.saved
  /\ date - calibObs.saved[calibObs.key].day = 30
  /\ calibObs.returned.present

\* C16: a tracker constructed while localStorage holds an unexpired profile
\* of its device for its video size starts CALIBRATED, with the stored focal
\* length as cameraIntrinsics.focalLength.
C16_StartsFromStoredProfile ==
  calibObs.lastOp = "startup" =>
    \A k \in DOMAIN storage :
      ( /\ storage[k].deviceId.device = proTracker.deviceId.device
        /\ storage[k].width = VideoSize.width
        /\ storage[k].height = VideoSize.height
        /\ date - storage[k].timestamp <= 30 )
      => /\ proTracker.calibrationState = "CALIBRATED"
         /\ proTracker.cameraIntrinsics.focalLength = storage[k].focalLength

\* C17: getCalibratedFocalLength() returns null on fewer than minSamples
\* samples, on a weighted average outside [500, 3000] and on a variance above
\* 10000; a rejection leaves calibratedFocal and lastCalibrationTime as they
\* were and the tracker CALIBRATING, and a rejected average or variance
\* discards the sample that caused it.
C17_RejectionDiscardsSample ==
  LET before == calibObs.before
      average == WeightedAverage(before.samples, now)
      rejected ==
        \/ Len(before.samples) < minSamples
        \/ average < 500 \/ average > 3000
        \/ calculateSampleVariance(before.samples) > 10000
  IN (calibObs.lastOp = "getCalibratedFocalLength" /\ rejected) =>
       /\ calibObs.result = Null
       /\ calibrator.calibratedFocal = before.calibratedFocal
       /\ calibrator.lastCalibrationTime = before.lastCalibrationTime
       /\ proTracker.calibrationState = "CALIBRATING"
       /\ Len(before.samples) >= minSamples
            => Len(calibrator.samples) < Len(before.samples)

\* C18 as stated: within one tracker, calibratedFocal and the tracker's
\* cameraIntrinsics change only in a getCalibratedFocalLength() that accepts
\* an average over at least minSamples samples.
C18_Original ==
  [][ ( /\ calibObs'.startups = calibObs.startups
        /\ \/ calibrator'.calibratedFocal # calibrator.calibratedFocal
           \/ proTracker'.cameraIntrinsics # proTracker.cameraIntrinsics )
      => /\ calibObs'.lastOp \in {"getCalibratedFocalLength", "attemptCalibration"}
         /\ calibObs'.result # Null
         /\ Len(calibrator'.samples) >= minSamples ]_vars

\* C18: within one tracker, calibratedFocal and the tracker's cameraIntrinsics
\* change only in a getCalibratedFocalLength() that accepts an average over at
\* least minSamples samples, or when reset() clears calibratedFocal to null;
\* addSample and estimateFocalLength leave them alone.
C18_OnlyAcceptedAverageOrReset ==
  [][ ( /\ calibObs'.startups = calibObs.startups
        /\ \/ calibrator'.calibratedFocal # calibrator.calibratedFocal
           \/ proTracker'.cameraIntrinsics # proTracker.cameraIntrinsics )
      => \/ /\ calibObs'.lastOp \in {"getCalibratedFocalLength",
                                     "attemptCalibration"}
            /\ calibObs'.result # Null
            /\ calibrator'.calibratedFocal = calibObs'.result
            /\ Len(calibrator'.samples) >= minSamples
         \/ /\ calibObs'.lastOp = "reset"
            /\ calibrator'.calibratedFocal = Null
            /\ proTracker'.cameraIntrinsics = proTracker.cameraIntrinsics ]_vars

C18_Witness ==
  /\ calibObs.lastOp = "getCalibratedFocalLength"
  /\ calibObs.before.calibratedFocal # Null
  /\ calibObs.result # Null
  /\ calibrator.calibratedFocal = calibObs.result
  /\ \E i \in 1..Len(calibrator.samples) :
       calibrator.samples[i].value # calibObs.result


\* C19: after an update, predictedLoss is true exactly when at least three of
\* the six metrics have a history of five or more values whose regression
\* slope is below -0.01 per sample and the overall quality is below 0.75.
C19_PredictedLossFromTrends ==
  LET Declining(h) ==
        /\ Len(h) >= 5
        /\ \A i \in 1..Len(h) : h[i] # NaN
        /\ TrendOf(h).num < 0 - TrendOf(h).den
      declining == {name \in MetricSet : Declining(monitor.metrics[name].history)}
  IN obs.lastOp = "update" =>
       ( monitor.predictedLoss
           <=> ( /\ Cardinality(declining) >= 3
                 /\ monitor.overallQuality # NaN
                 /\ monitor.overallQuality < goodThreshold ) )

C19_Witness ==
  /\ obs.lastOp = "update"
  /\ monitor.predictedLoss
  /\ Cardinality({name \in MetricSet : TrendDeclining(monitor.metrics[name])}) = 3

\* C20: after an update with frames whose supplied fields are in range, the
\* overall quality is a number in [0, 1].
C20_QualityInUnitInterval ==
  obs.lastOp = "update" =>
    /\ monitor.overallQuality # NaN
    /\ monitor.overallQuality >= 0
    /\ monitor.overallQuality <= 10000

\* C21: a metric's history holds at most 30 values and the quality history at
\* most 100; they are the latest values pushed, in order (oldest dropped first).
C21_BoundedHistories ==
  /\ \A name \in MetricSet : Len(monitor.metrics[name].history) <= 30
  /\ Len(monitor.qualityHistory) <= 100
  /\ monitor.metrics["landmarkConfidence"].history = LastN(obs.pushedConfidence, 30)
  /\ monitor.qualityHistory = LastN(obs.pushedQuality, 100)

C21_Witness ==
  /\ Len(obs.pushedQuality) > 100
  /\ Len(monitor.qualityHistory) = 100
  /\ Len(obs.pushedConfidence) > 30
  /\ Len(monitor.metrics["landmarkConfidence"].history) = 30
  /\ monitor.metrics["landmarkConfidence"].history[1] # monitor.metrics["landmarkConfidence"].history[30]

\* C22: the sample buffer holds at most maxSamples (15) samples, the values
\* last added in the order they were added; addSample() of null, 0 or NaN
\* returns false and leaves the buffer as it was, any other returns true.
C22_SampleBufferIsFifo ==
  /\ Len(calibrator.samples) <= maxSamples
  /\ [i \in 1..Len(calibrator.samples) |-> calibrator.samples[i].value]
       = LastN(calibObs.added, maxSamples)
  /\ calibObs.lastOp = "addSample" =>
       IF calibObs.argument \in {Null, 0, NaN}
       THEN ~calibObs.accepted /\ calibrator = calibObs.before
       ELSE calibObs.accepted

C22_Witness ==
  /\ calibObs.lastOp = "addSample"
  /\ calibObs.argument = 0
  /\ Len(calibObs.added) > maxSamples
  /\ Len(calibrator.samples) = maxSamples

\* C23: of two update() calls with confidences in [0, 1], the one with the
\* lower confidence runs the position and rotation filters with a minimum
\* cutoff that is not above the other's, and every cutoff is positive.
C23_LowerConfidenceSmoothsMore ==
  LET a == stabObs.appliedBefore
      b == stabObs.applied
      Ordered(lo, hi) ==
        lo.confidence <= hi.confidence =>
          lo.position <= hi.position /\ lo.rotation <= hi.rotation
  IN (a.present /\ b.present) =>
       /\ Ordered(a, b) /\ Ordered(b, a)
       /\ b.position > 0 /\ b.rotation > 0

\* C24: an estimator constructed with useRANSAC false solves from every
\* correspondence, and one constructed with refinePose false runs no
\* Gauss-Newton refinement and returns the initial DLT estimate.
C24_OptionalStagesOnlyWhenEnabled ==
  poseResult.lastOp = "solve" =>
    /\ ~poseEstimator.options.useRANSAC =>
         /\ "findInliers" \notin {poseResult.stages[i] : i \in DOMAIN poseResult.stages}
         /\ poseResult.inliers = {poseResult.correspondences[i] : i \in DOMAIN poseResult.correspondences}
    /\ (~poseEstimator.options.refinePose /\ poseResult.result.present) =>
         /\ "iterativeRefinement" \notin {poseResult.stages[i] : i \in DOMAIN poseResult.stages}
         /\ poseResult.result = poseResult.initial

C27_CalibrationCompletes ==
  <>(/\ proTracker.calibrationState = "CALIBRATED"
     /\ calibrator.calibratedFocal # Null)

C29_OutcomeNeverInferred ==
  [][ monitor.recoveryInProgress =>
        /\ obs'.updates # obs.updates =>
              ~fired'.onRecoveryAttempt /\ monitor'.recoveryInProgress
        /\ ~monitor'.recoveryInProgress =>
              obs'.lastOp \in {"reset", "recoveryComplete"} ]_vars

\* An update in lost, entered again after the attempt was made, with the
\* dwell time and the cooldown elapsed and attempts left: it fired nothing.
C29_Witness ==
  /\ monitor.recoveryInProgress /\ monitor.state = "lost"
  /\ obs.lastOp = "update" /\ ~fired.onRecoveryAttempt
  /\ obs.lostSince # Null /\ obs.lostSince > monitor.lastRecoveryTime
  /\ DelayElapsed(monitor.lossDuration)
  /\ AttemptsLeft(monitor)
  /\ CooldownElapsed(monitor, now)

\* C30: the state is never error; it is initializing exactly when no
\* update() has run since construction or the last reset(); and after an
\* update() it is the band of the thresholds that holds the quality this
\* update computed (the quality the update returned), whatever the state
\* before was.
C30_StateFollowsQualityAlone ==
  LET q == monitor.overallQuality
      state == monitor.state
  IN /\ state \in TRACKING_STATES \ {"error"}
     /\ state = "initializing" <=> obs.pushedQuality = <<>>
     /\ obs.pushedQuality # <<>> =>
          /\ q = obs.pushedQuality[Len(obs.pushedQuality)]
          /\ state = "tracking_excellent" <=> q >= excellentThreshold
          /\ state = "tracking_good" <=> q >= goodThreshold /\ ~(q >= excellentThreshold)
          /\ state = "tracking_acceptable" <=> q >= acceptableThreshold /\ ~(q >= goodThreshold)
          /\ state = "tracking_poor" <=> q >= poorThreshold /\ ~(q >= acceptableThreshold)
          /\ state = "recovering" <=> q >= criticalThreshold /\ ~(q >= poorThreshold)
          /\ state = "lost" <=> ~(q >= criticalThreshold)

\* An update took the monitor from lost straight to tracking_excellent.
C30_Witness ==
  /\ obs.lastOp = "update"
  /\ monitor.previousState = "lost"
  /\ monitor.state = "tracking_excellent"
====
